---- MODULE Spec2Model ----
(***************************************************************************)
(* State-machine model of the SDK retry queue (src/retry-queue.ts, kept    *)
(* as src/unnamed/part_004): the RetryQueue instances ("tabs") that share  *)
(* one localStorage scope, their processing cycles, the cross-tab lock and *)
(* the persisted list.                                                     *)
(*                                                                         *)
(* Time is Date.now() in milliseconds.  One step of the model is one       *)
(* synchronous run of a handler up to its next await: a public call        *)
(* (enqueue, flush, clear, destroy), the constructor, the microtask the    *)
(* constructor schedules, or the continuation of retryItem after its       *)
(* fetch settles (followed, when it was the last of the batch, by the      *)
(* continuation of processQueue after Promise.allSettled).                 *)
(***************************************************************************)
EXTENDS Integers, Sequences, FiniteSets

VARIABLES
  now,               \* Date.now()
  online,            \* navigator.onLine
  lsQueue,           \* localStorage[`${prefix}::rq`], the persisted list
  lsLock,            \* localStorage[`${prefix}::rq_lock`], NoLock when absent
  nextId,            \* source of fresh ids (generateId)
  constructed,       \* constructed[t]: the instance of tab t exists
  options,           \* this.options
  queue,             \* this.queue
  mode,              \* StorageAdapter mode: "localStorage" or "memory"
  isProcessing,      \* this.isProcessing
  processingPromise, \* this.processingPromise: "null" or "promise"
  currentConcurrent, \* this.currentConcurrent
  pending,           \* ids whose fetch was started and has not settled
  safeCount,         \* the local safeCount of the running cycle
  initPending,       \* the microtask scheduled by init() has not run yet
  activeCycles,      \* history: cycles started and not yet finished
  sent,              \* history: attempts started per id in the running cycle
  attempts,          \* history: attempts started per id by all cycles of a tab,
                     \* in the specifications that count them (Uncounted elsewhere)
  acq,               \* history: how the running cycle got the lock
  lockWas,           \* lockWas[t]: the lock record getItem may still hand
                     \*   to tab t although another tab has written since
  flushExpired,      \* history: ids expired when flush() was called, and
                     \*          when the last flush() that began a cycle was
  beaconCalls,       \* history: ids handed to navigator.sendBeacon, in
                     \*          order, by the last flushOnUnload()
  returned,          \* history: what the last call of the StorageAdapter
                     \*          returned
  threw,             \* history: the last handler let an exception escape
  last               \* history: the last handler that ran

vars == <<now, online, lsQueue, lsLock, nextId, constructed, options, queue,
          mode, isProcessing, processingPromise, currentConcurrent, pending,
          safeCount, initPending, activeCycles, sent, attempts, acq, lockWas,
          flushExpired, beaconCalls, returned, threw, last>>

----------------------------------------------------------------------------
(* Bounds of the model *)

MaxEnqueues == 3       \* enqueue calls in one behaviour, all tabs together
MaxTicks == 3          \* short clock steps in one behaviour
MaxTabEnqueues == 1    \* enqueue calls in one behaviour of SpecTabs
MaxBackoffEnqueues == 2  \* enqueue calls in one behaviour of SpecBackoff
MaxLiveEnqueues == 2   \* enqueue calls in one behaviour of SpecLive
MaxUnloadEnqueues == 2 \* enqueue calls in one behaviour of SpecUnload
MaxFaultEnqueues == 1  \* enqueue calls in one behaviour of SpecFaults
MaxReloadEntries == 2  \* entries in the list SpecReload starts from
MaxHangEnqueues == 2   \* enqueue calls in one behaviour of SpecHang
MaxModeEntries == 1    \* entries in the list SpecMode starts from
MaxLeaseEnqueues == 2  \* enqueue calls in one behaviour of SpecLease
MaxAttemptEnqueues == 2  \* enqueue calls in one behaviour of SpecAttempts

Tabs == {"A", "B"}
TickStep == {1000}
LongStep == {10000}
BackoffStep == {3000, 4000}
Ids == 1..(MaxEnqueues + 1)

----------------------------------------------------------------------------
(* Types and constants of the program *)

Priorities == {"low", "normal", "high"}
Undefined == "undefined"

PRIORITY_WEIGHT(p) ==
  CASE p = "low" -> 1
    [] p = "normal" -> 2
    [] p = "high" -> 3

LOCK_EXPIRE_TIME == 10000
SAFE_COUNT == 1000
BACKOFF_BASE == 1000

NoLock == [tabId |-> "none", timestamp |-> 0]

\* Stored lock values that are not a lock record: a string JSON.parse
\* rejects (or parses to null), and JSON without tabId and timestamp.
Unparsable == [tabId |-> "unparsable", timestamp |-> 0]
Fieldless == [tabId |-> "fieldless", timestamp |-> 0]
Malformed == {Unparsable, Fieldless}

\* No read of tab t is overtaken by a write of another tab.
NotStale == [tabId |-> "notstale", timestamp |-> 0]

\* How an access to the lock record goes: it works, it throws, or
\* another tab writes between its getItem and what follows.
LockAccess == {"ok", "throws", "stale"}

\* The options of the instance of Spec.
Configs ==
  { [maxQueueSize |-> 2, maxRetries |-> 2, expireTime |-> 2000,
     retryInterval |-> 2000, maxConcurrent |-> 2,
     maxFlushOnUnload |-> 1],
    [maxQueueSize |-> 2, maxRetries |-> 1, expireTime |-> 2000,
     retryInterval |-> 1000, maxConcurrent |-> 1,
     maxFlushOnUnload |-> 1],
    [maxQueueSize |-> 2, maxRetries |-> 0, expireTime |-> 2000,
     retryInterval |-> 1000, maxConcurrent |-> 1,
     maxFlushOnUnload |-> 1] }

\* The options of the instances of SpecEnqueue.
EnqueueConfigs ==
  { [maxQueueSize |-> 2, maxRetries |-> 2, expireTime |-> 2000,
     retryInterval |-> 2000, maxConcurrent |-> 2,
     maxFlushOnUnload |-> 1],
    [maxQueueSize |-> 1, maxRetries |-> 1, expireTime |-> 2000,
     retryInterval |-> 1000, maxConcurrent |-> 1,
     maxFlushOnUnload |-> 1] }

\* The options of the two-tab specification: nothing expires in it.
TabsConfig ==
  [maxQueueSize |-> 2, maxRetries |-> 1, expireTime |-> 86400000,
   retryInterval |-> 2000, maxConcurrent |-> 2,
     maxFlushOnUnload |-> 1]

\* The options of SpecLive: two attempts at a time and up to two failures
\* of an entry, or one attempt at a time.
LiveConfigs ==
  { [maxQueueSize |-> 2, maxRetries |-> 2, expireTime |-> 2000,
     retryInterval |-> 2000, maxConcurrent |-> 2,
     maxFlushOnUnload |-> 1],
    [maxQueueSize |-> 2, maxRetries |-> 3, expireTime |-> 86400000,
     retryInterval |-> 1000, maxConcurrent |-> 1,
     maxFlushOnUnload |-> 1] }

\* The options of SpecBackoff: a ceiling the doubling reaches at the second
\* failure, and the default ceiling, which it does not reach.
BackoffConfigs ==
  { [maxQueueSize |-> 2, maxRetries |-> 3, expireTime |-> 86400000,
     retryInterval |-> 3000, maxConcurrent |-> 1,
     maxFlushOnUnload |-> 1],
    [maxQueueSize |-> 2, maxRetries |-> 3, expireTime |-> 86400000,
     retryInterval |-> 30000, maxConcurrent |-> 1,
     maxFlushOnUnload |-> 1] }

WriteOutcomes == {"ok", "quota", "error"}

\* The method and headers of a payload: neither; headers with a key; the
\* method GET; the method post and headers without a key.
PlainPost == "plain"
PayloadKinds == {PlainPost, "headers", "get", "post"}
FetchOutcomes == {"ok", "notok", "throw"}

----------------------------------------------------------------------------
(* Pure helpers *)

\* Math.pow(2, n)
RECURSIVE Pow2(_)
Pow2(n) == IF n = 0 THEN 1 ELSE 2 * Pow2(n - 1)

Min(a, b) == IF a <= b THEN a ELSE b

IdsOf(q) == {q[k].id : k \in 1..Len(q)}

Find(q, id) == CHOOSE k \in 1..Len(q) : q[k].id = id

RemoveAt(q, k) == SubSeq(q, 1, k - 1) \o SubSeq(q, k + 1, Len(q))

\* The comparator of removeLowestPriorityItem: negative when a sorts first.
\* Mutant of Compare: the priority is ignored.
CompareByAge(a, b) == a.createdAt - b.createdAt

Compare(a, b) ==
  LET priorityDiff == PRIORITY_WEIGHT(a.priority) - PRIORITY_WEIGHT(b.priority)
  IN IF priorityDiff # 0 THEN priorityDiff ELSE a.createdAt - b.createdAt

\* Array.prototype.sort is stable: e goes before the first element that
\* sorts strictly after it.
RECURSIVE Insert(_, _)
Insert(s, e) ==
  IF s = <<>> THEN <<e>>
  ELSE IF Compare(e, Head(s)) < 0 THEN <<e>> \o s
  ELSE <<Head(s)>> \o Insert(Tail(s), e)

RECURSIVE SortQueue(_)
SortQueue(q) ==
  IF q = <<>> THEN <<>>
  ELSE Insert(SortQueue(SubSeq(q, 1, Len(q) - 1)), q[Len(q)])

\* Mutant of removeLowestPriorityItem: two entries are shifted.
removeLowestPriorityItemTwice(q) ==
  IF Len(q) <= 1 THEN <<>> ELSE Tail(Tail(SortQueue(q)))

\* removeLowestPriorityItem: sort in place, then shift().
removeLowestPriorityItem(q) ==
  IF Len(q) = 0 THEN q ELSE Tail(SortQueue(q))

Expired(e, t, o) == t - e.createdAt > o.expireTime

\* Mutant of cleanExpiredItems: the age is not checked.
cleanExpiredItemsNoAge(q, t, o) ==
  SelectSeq(q, LAMBDA e : ~(e.retryCount >= o.maxRetries))

\* Mutant of cleanExpiredItems: the retry count is not checked.
cleanExpiredItemsNoLimit(q, t, o) ==
  SelectSeq(q, LAMBDA e : ~Expired(e, t, o))

\* cleanExpiredItems: the filter (the save is done by the caller below).
cleanExpiredItems(q, t, o) ==
  SelectSeq(q, LAMBDA e : ~Expired(e, t, o) /\ ~(e.retryCount >= o.maxRetries))

\* Mutant of minWaitTime: the doubling has no ceiling.
minWaitTimeNoCeiling(e, o) == BACKOFF_BASE * Pow2(e.retryCount)

\* The wait of processQueue before the next attempt of e.
minWaitTime(e, o) == Min(o.retryInterval, BACKOFF_BASE * Pow2(e.retryCount))

\* Mutant of ShouldRetry: the wait is not checked.
ShouldRetryAlways(e, t, o) == TRUE

\* Mutant of ShouldRetry: an entry whose wait has just elapsed is skipped.
ShouldRetryLate(e, t, o) ==
  ~(e.lastRetryTime > 0 /\ t - e.lastRetryTime <= minWaitTime(e, o))

\* The retry check of processQueue, on the live entry.
ShouldRetry(e, t, o) ==
  ~(e.lastRetryTime > 0 /\ t - e.lastRetryTime < minWaitTime(e, o))

InQueue(q, id) == id \in IdsOf(q)

\* Mutant of BatchFrom: the concurrency limit is not tested.
RECURSIVE BatchFromNoGate(_, _, _, _, _)
BatchFromNoGate(q, k, cc, t, o) ==
  IF k > Len(q) THEN {}
  ELSE IF ~InQueue(q, q[k].id) THEN BatchFromNoGate(q, k + 1, cc, t, o)
  ELSE IF ~ShouldRetry(q[k], t, o) THEN BatchFromNoGate(q, k + 1, cc, t, o)
  ELSE {q[k].id} \cup BatchFromNoGate(q, k + 1, cc + 1, t, o)

\* The for loop of one batch over the snapshot q (the live queue does not
\* change while it runs): the ids whose retryItem is started.
RECURSIVE BatchFrom(_, _, _, _, _)
BatchFrom(q, k, cc, t, o) ==
  IF k > Len(q) THEN {}
  ELSE IF ~InQueue(q, q[k].id) THEN BatchFrom(q, k + 1, cc, t, o)
  ELSE IF cc >= o.maxConcurrent THEN {}
  ELSE IF ~ShouldRetry(q[k], t, o) THEN BatchFrom(q, k + 1, cc, t, o)
  ELSE {q[k].id} \cup BatchFrom(q, k + 1, cc + 1, t, o)

----------------------------------------------------------------------------
(* StorageAdapter (src/storage-adapter.ts, kept as the second half of      *)
(* src/unnamed/part_002).  A storage value is [ls |-> what the key holds,  *)
(* mode |-> mode of the calling adapter].  The key holds a list of         *)
(* entries, the empty list when it is absent; a text that is no list is    *)
(* written as a one-element list holding a mark.                           *)

Sto(t) == [ls |-> lsQueue, mode |-> mode[t]]

Mark(kind) ==
  [id |-> 0, priority |-> kind, payload |-> "none", retryCount |-> 0,
   lastRetryTime |-> 0, createdAt |-> 0]

UnparsableText == <<Mark("unparsable")>>  \* JSON.parse throws on it
JsonObject == <<Mark("object")>>          \* parses to an object
JsonNull == <<Mark("null")>>              \* the text "null"
NotAList == {UnparsableText, JsonObject, JsonNull}

\* What a write of the list does: "ok"; setItem throws QuotaExceededError
\* ("quota") or something else ("error"); or the probe of
\* isLocalStorageAvailable fails ("unavailable").
SaveOutcomes == {"ok", "quota", "error", "unavailable"}

\* Mutant of StorageSave: in memory mode the write is tried again, and one
\* that works takes the adapter back to localStorage mode.
StorageSaveRecovers(sto, q, w) ==
  IF w = "unavailable" THEN sto
  ELSE IF w = "ok" THEN [ls |-> q, mode |-> "localStorage"]
  ELSE IF sto.mode = "memory" THEN sto
  ELSE IF w = "quota" THEN [ls |-> <<>>, mode |-> "memory"]
  ELSE [ls |-> sto.ls, mode |-> "memory"]

\* Mutant of StorageSave: the stored list is read first and its entries
\* that the queue does not hold are written back after those of the queue.
StorageSaveMerges(sto, q, w) ==
  IF sto.mode = "memory" THEN sto
  ELSE IF w = "unavailable" THEN sto
  ELSE IF w = "ok"
  THEN [ls |-> q \o SelectSeq(sto.ls, LAMBDA e : ~InQueue(q, e.id)),
        mode |-> "localStorage"]
  ELSE IF w = "quota" THEN [ls |-> <<>>, mode |-> "memory"]
  ELSE [ls |-> sto.ls, mode |-> "memory"]

\* Mutant of StorageSave: setItem is not called and the stored record is
\* left as it was.
StorageSaveSkips(sto, q, w) == sto

\* Mutant of StorageSave: a write that throws leaves the adapter in
\* localStorage mode.
StorageSaveKeepsMode(sto, q, w) ==
  IF sto.mode = "memory" THEN sto
  ELSE IF w = "unavailable" THEN sto
  ELSE IF w = "ok" THEN [ls |-> q, mode |-> "localStorage"]
  ELSE IF w = "quota" THEN [ls |-> <<>>, mode |-> "localStorage"]
  ELSE sto

\* save(queue): no write in memory mode nor when the probe fails; a write
\* that throws switches the adapter to memory mode (a quota error also
\* removes the stored record).
StorageSave(sto, q, w) ==
  IF sto.mode = "memory" THEN sto
  ELSE IF w = "unavailable" THEN sto
  ELSE IF w = "ok" THEN [ls |-> q, mode |-> "localStorage"]
  ELSE IF w = "quota" THEN [ls |-> <<>>, mode |-> "memory"]
  ELSE [ls |-> sto.ls, mode |-> "memory"]

\* The value save(queue) returns.
StorageSaveReturns(sto, w) == sto.mode = "memory" \/ w = "ok"

\* Mutant of StorageLoadResult: a parsed value that is no list is removed
\* from storage.
StorageLoadResultClears(sto, avail) ==
  IF sto.mode = "memory" THEN [data |-> <<>>, ls |-> sto.ls, mode |-> "memory"]
  ELSE IF ~avail THEN [data |-> <<>>, ls |-> sto.ls, mode |-> "memory"]
  ELSE IF sto.ls = UnparsableText
  THEN [data |-> <<>>, ls |-> <<>>, mode |-> "memory"]
  ELSE IF sto.ls \in {JsonObject, JsonNull}
  THEN [data |-> <<>>, ls |-> <<>>, mode |-> "localStorage"]
  ELSE [data |-> sto.ls, ls |-> sto.ls, mode |-> "localStorage"]

\* load(): data is the list returned, ls and mode the storage afterwards.
\* Memory mode returns the empty list; a failed probe (avail false)
\* switches to memory mode; a text JSON.parse throws on switches to memory
\* mode and is removed by clear(); a parsed value that is no array is left
\* where it is.
StorageLoadResult(sto, avail) ==
  IF sto.mode = "memory" THEN [data |-> <<>>, ls |-> sto.ls, mode |-> "memory"]
  ELSE IF ~avail THEN [data |-> <<>>, ls |-> sto.ls, mode |-> "memory"]
  ELSE IF sto.ls = UnparsableText
  THEN [data |-> <<>>, ls |-> <<>>, mode |-> "memory"]
  ELSE IF sto.ls \in {JsonObject, JsonNull}
  THEN [data |-> <<>>, ls |-> sto.ls, mode |-> "localStorage"]
  ELSE [data |-> sto.ls, ls |-> sto.ls, mode |-> "localStorage"]

\* What a call of the adapter returned: data is the list load() returned,
\* ok what save() returned.
NoReturn == [call |-> "none", data |-> <<>>, ok |-> TRUE]

\* The list load() returns with localStorage available.
StorageLoad(sto) == StorageLoadResult(sto, TRUE).data

\* Mutant of StorageClear: nothing is removed in memory mode.
StorageClearSkipsMemory(sto, avail) ==
  IF sto.mode = "memory" \/ ~avail THEN sto ELSE [sto EXCEPT !.ls = <<>>]

\* clear(): removes the stored record, in either mode, unless the probe of
\* isLocalStorageAvailable fails (avail false).
StorageClear(sto, avail) ==
  IF ~avail THEN sto ELSE [sto EXCEPT !.ls = <<>>]

----------------------------------------------------------------------------
(* The cross-tab lock *)

\* Mutant of tryAcquireLock: a record is expired only when it is older than
\* LOCK_EXPIRE_TIME.
tryAcquireLockStrictAge(t, lk, time, lf) ==
  IF lf \/ lk = Unparsable
  THEN [ok |-> TRUE, write |-> FALSE, how |-> "failopen"]
  ELSE IF lk = NoLock
  THEN [ok |-> TRUE, write |-> TRUE, how |-> "lock"]
  ELSE IF lk = Fieldless
  THEN [ok |-> FALSE, write |-> FALSE, how |-> "none"]
  ELSE IF time - lk.timestamp > LOCK_EXPIRE_TIME \/ lk.tabId = t
  THEN [ok |-> TRUE, write |-> TRUE, how |-> "lock"]
  ELSE [ok |-> FALSE, write |-> FALSE, how |-> "none"]

\* Mutant of tryAcquireLock: the age of a record is compared with 0.
tryAcquireLockAnyAge(t, lk, time, lf) ==
  IF lf \/ lk = Unparsable
  THEN [ok |-> TRUE, write |-> FALSE, how |-> "failopen"]
  ELSE IF lk = NoLock
  THEN [ok |-> TRUE, write |-> TRUE, how |-> "lock"]
  ELSE IF lk = Fieldless
  THEN [ok |-> FALSE, write |-> FALSE, how |-> "none"]
  ELSE IF time - lk.timestamp >= 0 \/ lk.tabId = t
  THEN [ok |-> TRUE, write |-> TRUE, how |-> "lock"]
  ELSE [ok |-> FALSE, write |-> FALSE, how |-> "none"]

\* Mutant of tryAcquireLock: the record of another tab is taken over
\* whatever its age.
tryAcquireLockTakeOver(t, lk, time, lf) ==
  IF lf THEN [ok |-> TRUE, write |-> FALSE, how |-> "failopen"]
  ELSE [ok |-> TRUE, write |-> TRUE, how |-> "lock"]

\* tryAcquireLock, lk being what getItem returned: ok is the result, write
\* tells whether setItem({tabId, timestamp: now}) was called.
\* lf: the access to localStorage throws (or there is no localStorage); it
\* is caught and reported as success.  JSON.parse throws on Unparsable,
\* with the same effect.  On Fieldless both fields are undefined: the age
\* is NaN and neither test passes.
tryAcquireLock(t, lk, time, lf) ==
  IF lf \/ lk = Unparsable
  THEN [ok |-> TRUE, write |-> FALSE, how |-> "failopen"]
  ELSE IF lk = NoLock
  THEN [ok |-> TRUE, write |-> TRUE, how |-> "lock"]
  ELSE IF lk = Fieldless
  THEN [ok |-> FALSE, write |-> FALSE, how |-> "none"]
  ELSE IF time - lk.timestamp >= LOCK_EXPIRE_TIME \/ lk.tabId = t
  THEN [ok |-> TRUE, write |-> TRUE, how |-> "lock"]
  ELSE [ok |-> FALSE, write |-> FALSE, how |-> "none"]

\* Mutant of releaseLock: the record is never removed.
releaseLockNever(t, lk, cur, lf) == cur

\* releaseLock, lk being what getItem returned and cur the record stored
\* when removeItem would run: the record is removed only when lk is this
\* tab's; an access that throws is ignored.
releaseLock(t, lk, cur, lf) ==
  IF ~lf /\ lk.tabId = t THEN NoLock ELSE cur

\* The record the getItem of tab t returns under access la.
Seen(t, la) == IF la = "stale" THEN lockWas[t] ELSE lsLock

\* Access "stale" needs a write of another tab that t may have missed.
CanAccess(t, la) ==
  la = "stale" => (lockWas[t] # NotStale /\ lockWas[t] # lsLock)

\* An access other than "ok" is drawn only where it changes what the
\* handler does: tryAcquireLock reports another result, or writes where it
\* would not have; releaseLock removes, or leaves, another record.
AcquireDiffers(t, la) ==
  \/ la = "ok"
  \/ la = "throws"
  \/ /\ la = "stale" /\ CanAccess(t, la)
     /\ tryAcquireLock(t, lockWas[t], now, FALSE).ok
          # tryAcquireLock(t, lsLock, now, FALSE).ok

ReleaseDiffers(t, la) ==
  \/ la = "ok"
  \/ la = "throws" /\ lsLock.tabId = t
  \/ /\ la = "stale" /\ CanAccess(t, la)
     /\ (lockWas[t].tabId = t) # (lsLock.tabId = t)

\* lockWas after a handler of tab t: t has read past every write; the
\* other tabs may still hold the record the handler replaced.
LockWasAfter(t) ==
  [u \in Tabs |->
     IF u = t THEN NotStale
     ELSE IF constructed[u] /\ lsLock' # lsLock THEN lsLock
     ELSE lockWas[u]]

----------------------------------------------------------------------------
(* Queue mutations of the attempt outcome *)

\* Mutant of removeItem: the entry at the head of the queue, where the
\* batch snapshot had the entry, is spliced out.
removeItemAtHead(q, id) ==
  IF Len(q) > 0 THEN Tail(q) ELSE q

\* removeItem: splice the entry out when it is found.
removeItem(q, id) ==
  IF InQueue(q, id) THEN RemoveAt(q, Find(q, id)) ELSE q

\* incrementRetryCount: retryCount++, lastRetryTime = now; the entry is
\* removed when it reaches maxRetries.
\* Mutant of incrementRetryCount: the entry is kept at the limit.
incrementRetryCountKeep(q, id, time, o) ==
  IF ~InQueue(q, id) THEN q
  ELSE [q EXCEPT ![Find(q, id)] =
          [@ EXCEPT !.retryCount = @ + 1, !.lastRetryTime = time]]

\* Mutant of incrementRetryCount: the entry is removed once its count is
\* above maxRetries.
incrementRetryCountAbove(q, id, time, o) ==
  IF ~InQueue(q, id) THEN q
  ELSE LET k == Find(q, id)
           item == [q[k] EXCEPT !.retryCount = @ + 1, !.lastRetryTime = time]
           q1 == [q EXCEPT ![k] = item]
       IN IF item.retryCount > o.maxRetries THEN removeItem(q1, id) ELSE q1

\* Mutant of incrementRetryCount: an entry that is no longer in the queue
\* is put back with the count of the failed attempt.
incrementRetryCountPutBack(q, id, time, o) ==
  IF ~InQueue(q, id)
  THEN Append(q, [id |-> id, payload |-> PlainPost, priority |-> "normal",
                  retryCount |-> 1, lastRetryTime |-> time,
                  createdAt |-> time])
  ELSE LET k == Find(q, id)
           item == [q[k] EXCEPT !.retryCount = @ + 1, !.lastRetryTime = time]
           q1 == [q EXCEPT ![k] = item]
       IN IF item.retryCount >= o.maxRetries THEN removeItem(q1, id) ELSE q1

incrementRetryCount(q, id, time, o) ==
  IF ~InQueue(q, id) THEN q
  ELSE LET k == Find(q, id)
           item == [q[k] EXCEPT !.retryCount = @ + 1, !.lastRetryTime = time]
           q1 == [q EXCEPT ![k] = item]
       IN IF item.retryCount >= o.maxRetries THEN removeItem(q1, id) ELSE q1

\* Mutant of ApplyOutcome: a rejected fetch removes the entry.
ApplyOutcomeDropOnThrow(q, id, outcome, time, o) ==
  IF outcome = "notok" THEN incrementRetryCount(q, id, time, o)
  ELSE removeItem(q, id)

\* What retryItem does to the queue once its fetch has settled.
ApplyOutcome(q, id, outcome, time, o) ==
  IF outcome = "ok" THEN removeItem(q, id)
  ELSE incrementRetryCount(q, id, time, o)

----------------------------------------------------------------------------
(* History values *)

NoSent == [id \in Ids |-> 0]
Uncounted == [id \in Ids |-> -1]
NoAcq == [at |-> 0, how |-> "none", lost |-> FALSE]
NoLast ==
  [op |-> "none", tab |-> "none", id |-> 0, res |-> "none", gone |-> 0,
   la |-> "ok"]
NoFlushExpired == [called |-> {}, started |-> {}]

\* op: the handler; id: the entry it was about; res: enqueue's priority
\* argument, what flush() did, or the outcome of the fetch; gone: the id
\* the handler removed from the queue (0: none); la: how its access to
\* the lock record went.
Op(op, t, id, res, gone) ==
  [op |-> op, tab |-> t, id |-> id, res |-> res, gone |-> gone, la |-> "ok"]

ExpiredIds(t) ==
  {queue[t][k].id : k \in {j \in 1..Len(queue[t]) :
                             Expired(queue[t][j], now, options[t])}}

----------------------------------------------------------------------------
(* The processing cycle *)

\* acq after a handler of tab t whose lock access was la: a running cycle
\* has lost its lock record when the handler took it away, by destroy()
\* of its own tab or by another tab acting on an overtaken read.
MarkLost(t, la) ==
  [u \in Tabs |->
     IF /\ isProcessing[u] /\ lsLock.tabId = u /\ lsLock'.tabId # u
        /\ (u = t \/ la = "stale")
     THEN [acq[u] EXCEPT !.lost = TRUE]
     ELSE acq[u]]

\* Mutant of Finish: isProcessing is left set.
FinishStaysProcessing(t, q, sto, lk, w, la, sync, ac) ==
  LET sto1 == StorageSave(sto, q, w)
  IN /\ queue' = [queue EXCEPT ![t] = q]
     /\ lsQueue' = sto1.ls
     /\ mode' = [mode EXCEPT ![t] = sto1.mode]
     /\ lsLock' = releaseLock(t, IF la = "stale" /\ ~sync THEN lockWas[t]
                                  ELSE lk,
                               lk, la = "throws")
     /\ isProcessing' = [isProcessing EXCEPT ![t] = TRUE]
     /\ processingPromise' =
          [processingPromise EXCEPT ![t] = IF sync THEN "promise" ELSE "null"]
     /\ currentConcurrent' = [currentConcurrent EXCEPT ![t] = 0]
     /\ pending' = [pending EXCEPT ![t] = {}]
     /\ safeCount' = [safeCount EXCEPT ![t] = 0]
     /\ activeCycles' = [activeCycles EXCEPT ![t] = ac - 1]
     /\ sent' = [sent EXCEPT ![t] = NoSent]
     /\ UNCHANGED attempts
     /\ acq' = [MarkLost(t, la) EXCEPT ![t] = NoAcq]

\* The finally block of the cycle.  sync: the cycle ended inside the
\* processQueue call that started it, whose assignment of the returned
\* promise to processingPromise then follows the finally block.
Finish(t, q, sto, lk, w, la, sync, ac) ==
  LET sto1 == StorageSave(sto, q, w)
  IN /\ queue' = [queue EXCEPT ![t] = q]
     /\ lsQueue' = sto1.ls
     /\ mode' = [mode EXCEPT ![t] = sto1.mode]
     /\ lsLock' = releaseLock(t, IF la = "stale" /\ ~sync THEN lockWas[t]
                                  ELSE lk,
                               lk, la = "throws")
     /\ isProcessing' = [isProcessing EXCEPT ![t] = FALSE]
     /\ processingPromise' =
          [processingPromise EXCEPT ![t] = IF sync THEN "promise" ELSE "null"]
     /\ currentConcurrent' = [currentConcurrent EXCEPT ![t] = 0]
     /\ pending' = [pending EXCEPT ![t] = {}]
     /\ safeCount' = [safeCount EXCEPT ![t] = 0]
     /\ activeCycles' = [activeCycles EXCEPT ![t] = ac - 1]
     /\ sent' = [sent EXCEPT ![t] = NoSent]
     /\ UNCHANGED attempts
     /\ acq' = [MarkLost(t, la) EXCEPT ![t] = NoAcq]

\* One pass of the while loop from its test: either a batch is started and
\* the cycle waits at Promise.allSettled, or the loop is left and the
\* finally block runs.  q, sto, lk, sc, cc are the values the handler has
\* reached; la is how the lock access of the handler goes (sync: it is the
\* access of tryAcquireLock, and releaseLock reads what that one wrote);
\* pd the attempts still in flight; ac, a the history values.
RunLoop(t, q, sto, lk, sc, cc, w, la, sync, ac, a, pd) ==
  LET o == options[t]
      batch == IF Len(q) > 0 /\ sc > 0 THEN BatchFrom(q, 1, cc, now, o) ELSE {}
  IN IF batch = {}
     THEN Finish(t, q, sto, lk, w, la, sync, ac)
     ELSE /\ la = "ok" \/ sync
          /\ queue' = [queue EXCEPT ![t] = q]
          /\ lsQueue' = sto.ls
          /\ mode' = [mode EXCEPT ![t] = sto.mode]
          /\ lsLock' = lk
          /\ isProcessing' = [isProcessing EXCEPT ![t] = TRUE]
          /\ processingPromise' = [processingPromise EXCEPT ![t] = "promise"]
          /\ currentConcurrent' =
               [currentConcurrent EXCEPT ![t] = cc + Cardinality(batch)]
          /\ pending' = [pending EXCEPT ![t] = pd \cup batch]
          /\ safeCount' = [safeCount EXCEPT ![t] = sc - 1]
          /\ activeCycles' = [activeCycles EXCEPT ![t] = ac]
          /\ sent' = [sent EXCEPT ![t] =
               [id \in Ids |-> IF id \in batch THEN @[id] + 1 ELSE @[id]]]
          /\ attempts' =
               IF attempts[t] = Uncounted THEN attempts
               ELSE [attempts EXCEPT ![t] =
                      [id \in Ids |-> IF id \in batch THEN @[id] + 1 ELSE @[id]]]
          /\ acq' = [MarkLost(t, la) EXCEPT ![t] = a]

\* Mutant of AlreadyProcessing: the promise is tested the wrong way round.
AlreadyProcessingWrongTest(t) == isProcessing[t] /\ processingPromise[t] = "null"

\* The test at the head of processQueue.
AlreadyProcessing(t) == isProcessing[t] /\ processingPromise[t] # "null"

\* processQueue, called by flush() (op "flush") or by the microtask of
\* init() (op "init").  w: what a write of the list does during the call;
\* la: how the accesses to the lock record go during the call.
processQueue(t, w, la, op) ==
  IF AlreadyProcessing(t)
  THEN /\ last' = Op(op, t, 0, "joined", 0)
       /\ UNCHANGED <<lsQueue, lsLock, queue, mode, isProcessing,
                      processingPromise, currentConcurrent, pending,
                      safeCount, activeCycles, sent, attempts, acq>>
  ELSE IF ~online
  THEN /\ last' = Op(op, t, 0, "offline", 0)
       /\ UNCHANGED <<lsQueue, lsLock, queue, mode, isProcessing,
                      processingPromise, currentConcurrent, pending,
                      safeCount, activeCycles, sent, attempts, acq>>
  ELSE IF Len(queue[t]) = 0
  THEN /\ last' = Op(op, t, 0, "empty", 0)
       /\ UNCHANGED <<lsQueue, lsLock, queue, mode, isProcessing,
                      processingPromise, currentConcurrent, pending,
                      safeCount, activeCycles, sent, attempts, acq>>
  ELSE LET r == tryAcquireLock(t, Seen(t, la), now, la = "throws")
       IN IF ~r.ok
          THEN /\ last' = [Op(op, t, 0, "nolock", 0) EXCEPT !.la = la]
               /\ UNCHANGED <<lsQueue, lsLock, queue, mode, isProcessing,
                              processingPromise, currentConcurrent, pending,
                              safeCount, activeCycles, sent, attempts, acq>>
          ELSE LET o == options[t]
                   q1 == cleanExpiredItems(queue[t], now, o)
                   sto1 == IF Len(q1) # Len(queue[t])
                           THEN StorageSave(Sto(t), q1, w) ELSE Sto(t)
                   lk1 == IF r.write
                          THEN [tabId |-> t, timestamp |-> now] ELSE lsLock
                   raced == /\ la = "stale"
                            /\ ~tryAcquireLock(t, lsLock, now, FALSE).ok
                   a == [at |-> now,
                         how |-> IF raced THEN "raced" ELSE r.how,
                         lost |-> FALSE]
               IN /\ RunLoop(t, q1, sto1, lk1, SAFE_COUNT,
                             currentConcurrent[t], w, la, TRUE,
                             activeCycles[t] + 1, a, pending[t])
                  /\ last' = [Op(op, t, 0, "cycle", 0) EXCEPT !.la = la]

----------------------------------------------------------------------------
(* Exceptions.  The calls of a handler that can throw, and what the try     *)
(* blocks around them let through.                                          *)

ThrowSites == {"setItem", "lockAccess", "lockParse", "fetch", "sendBeacon"}

\* The calls that throw while a handler runs: w is the outcome of its
\* writes of the list, la of its accesses to the lock record, lk the lock
\* record it reads, outcome that of its fetch and bo that of sendBeacon
\* ("none": the handler makes no such call).
Raised(w, la, lk, outcome, bo) ==
  (IF w \in {"quota", "error"} THEN {"setItem"} ELSE {})
    \cup (IF la = "throws" THEN {"lockAccess"} ELSE {})
    \cup (IF lk = Unparsable THEN {"lockParse"} ELSE {})
    \cup (IF outcome = "throw" THEN {"fetch"} ELSE {})
    \cup (IF bo = "throws" THEN {"sendBeacon"} ELSE {})

\* Mutant of Escapes: sendBeacon is called outside the try block.
EscapesBeacon(raised) == raised \cap {"sendBeacon"}

\* Mutant of Escapes: retryItem has no catch clause.
EscapesFetch(raised) == raised \cap {"fetch"}

\* The exceptions that leave the handler: setItem is called in the try of
\* StorageAdapter.save, the lock record is read and parsed in the try of
\* tryAcquireLock and of releaseLock, fetch in the try of retryItem and
\* sendBeacon in the try of flushOnUnload; every one has a catch clause.
Escapes(raised) ==
  raised \ {"setItem", "lockAccess", "lockParse", "fetch", "sendBeacon"}

Thrown(w, la, lk, outcome, bo) == Escapes(Raised(w, la, lk, outcome, bo)) # {}

----------------------------------------------------------------------------
(* The handlers *)

\* new RetryQueue(cfg) on the shared scope: the StorageAdapter picks its
\* mode (avail: localStorage passes its probe), init() loads the persisted
\* list, cleans it and schedules the first processQueue when it is not empty.
Construct(t, cfg, avail, w) ==
  /\ ~constructed[t]
  /\ LET sto0 == [ls |-> lsQueue, mode |-> IF avail THEN "localStorage" ELSE "memory"]
         ld == StorageLoadResult(sto0, avail)
         loaded == ld.data
         sto0a == [ls |-> ld.ls, mode |-> ld.mode]
         q1 == cleanExpiredItems(loaded, now, cfg)
         sto1 == IF Len(q1) # Len(loaded) THEN StorageSave(sto0a, q1, w) ELSE sto0a
     IN /\ constructed' = [constructed EXCEPT ![t] = TRUE]
        /\ options' = [options EXCEPT ![t] = cfg]
        /\ queue' = [queue EXCEPT ![t] = q1]
        /\ lsQueue' = sto1.ls
        /\ mode' = [mode EXCEPT ![t] = sto1.mode]
        /\ initPending' = [initPending EXCEPT ![t] = Len(q1) > 0]
        /\ last' = Op("construct", t, 0, "done", 0)
  /\ threw' = Thrown(w, "ok", NoLock, "none", "none")
  /\ UNCHANGED <<beaconCalls, returned,
                 now, online, lsLock, nextId, isProcessing, processingPromise,
                 currentConcurrent, pending, safeCount, activeCycles, sent, attempts, acq,
                 lockWas, flushExpired>>

\* The microtask of init(): processQueue(nextVisit) unless a cycle runs.
InitKick(t, w, la) ==
  /\ constructed[t]
  /\ initPending[t]
  /\ AcquireDiffers(t, la)
  /\ initPending' = [initPending EXCEPT ![t] = FALSE]
  /\ IF ~isProcessing[t]
     THEN processQueue(t, w, la, "init")
     ELSE /\ last' = Op("init", t, 0, "busy", 0)
          /\ UNCHANGED <<lsQueue, lsLock, queue, mode, isProcessing,
                         processingPromise, currentConcurrent, pending,
                         safeCount, activeCycles, sent, attempts, acq>>
  /\ lockWas' = LockWasAfter(t)
  /\ threw' = Thrown(w, la, Seen(t, la), "none", "none")
  /\ UNCHANGED <<beaconCalls, returned,
                 now, online, nextId, constructed, options, flushExpired>>

\* Mutant of Enqueue: the new entry is pushed first, and the eviction picks
\* among the old entries and the new one.
EnqueuePushFirst(t, p, w) ==
  /\ constructed[t]
  /\ nextId <= MaxEnqueues
  /\ LET o == options[t]
         full == Len(queue[t]) >= o.maxQueueSize
         item == [id |-> nextId,
                  payload |-> PlainPost,
                  priority |-> IF p = Undefined THEN "normal" ELSE p,
                  retryCount |-> 0,
                  lastRetryTime |-> 0,
                  createdAt |-> now]
         q1 == Append(queue[t], item)
         q2 == IF full THEN removeLowestPriorityItem(q1) ELSE q1
         sto1 == StorageSave(Sto(t), q2, w)
         gone == IdsOf(queue[t]) \ IdsOf(q2)
     IN /\ queue' = [queue EXCEPT ![t] = q2]
        /\ lsQueue' = sto1.ls
        /\ mode' = [mode EXCEPT ![t] = sto1.mode]
        /\ last' = Op("enqueue", t, nextId, p,
                      IF gone = {} THEN 0 ELSE CHOOSE id \in gone : TRUE)
  /\ nextId' = nextId + 1
  /\ threw' = Thrown(w, "ok", NoLock, "none", "none")
  /\ UNCHANGED <<beaconCalls, returned,
                 now, online, lsLock, constructed, options, isProcessing,
                 processingPromise, currentConcurrent, pending, safeCount,
                 initPending, activeCycles, sent, attempts, acq, lockWas, flushExpired>>

\* Mutant of Enqueue: the list is saved before the push.
EnqueueSaveFirst(t, p, w) ==
  /\ constructed[t]
  /\ nextId <= MaxEnqueues
  /\ LET o == options[t]
         full == Len(queue[t]) >= o.maxQueueSize
         q1 == IF full THEN removeLowestPriorityItem(queue[t]) ELSE queue[t]
         item == [id |-> nextId,
                  payload |-> PlainPost,
                  priority |-> IF p = Undefined THEN "normal" ELSE p,
                  retryCount |-> 0,
                  lastRetryTime |-> 0,
                  createdAt |-> now]
         q2 == Append(q1, item)
         sto1 == StorageSave(Sto(t), q1, w)
         gone == IdsOf(queue[t]) \ IdsOf(q1)
     IN /\ queue' = [queue EXCEPT ![t] = q2]
        /\ lsQueue' = sto1.ls
        /\ mode' = [mode EXCEPT ![t] = sto1.mode]
        /\ last' = Op("enqueue", t, nextId, p,
                      IF gone = {} THEN 0 ELSE CHOOSE id \in gone : TRUE)
  /\ nextId' = nextId + 1
  /\ threw' = Thrown(w, "ok", NoLock, "none", "none")
  /\ UNCHANGED <<beaconCalls, returned,
                 now, online, lsLock, constructed, options, isProcessing,
                 processingPromise, currentConcurrent, pending, safeCount,
                 initPending, activeCycles, sent, attempts, acq, lockWas, flushExpired>>

\* enqueue(payload); p is payload.priority, possibly undefined, and pl the
\* method and headers of the payload.
enqueue(t, p, pl, w) ==
  /\ constructed[t]
  /\ nextId <= MaxEnqueues
  /\ LET o == options[t]
         full == Len(queue[t]) >= o.maxQueueSize
         q1 == IF full THEN removeLowestPriorityItem(queue[t]) ELSE queue[t]
         item == [id |-> nextId,
                  payload |-> pl,
                  priority |-> IF p = Undefined THEN "normal" ELSE p,
                  retryCount |-> 0,
                  lastRetryTime |-> 0,
                  createdAt |-> now]
         q2 == Append(q1, item)
         sto1 == StorageSave(Sto(t), q2, w)
         gone == IdsOf(queue[t]) \ IdsOf(q1)
     IN /\ queue' = [queue EXCEPT ![t] = q2]
        /\ lsQueue' = sto1.ls
        /\ mode' = [mode EXCEPT ![t] = sto1.mode]
        /\ last' = Op("enqueue", t, nextId, p,
                      IF gone = {} THEN 0 ELSE CHOOSE id \in gone : TRUE)
  /\ nextId' = nextId + 1
  /\ threw' = Thrown(w, "ok", NoLock, "none", "none")
  /\ UNCHANGED <<beaconCalls, returned,
                 now, online, lsLock, constructed, options, isProcessing,
                 processingPromise, currentConcurrent, pending, safeCount,
                 initPending, activeCycles, sent, attempts, acq, lockWas, flushExpired>>

\* enqueue(payload) of a payload without method and headers.
Enqueue(t, p, w) == enqueue(t, p, PlainPost, w)

\* What navigator.sendBeacon does with a request: it returns true, it
\* returns false, or it throws.
BeaconOutcomes == {"true", "false", "throws"}

\* Mutant of sortedQueue: the queue is walked in its own order.
sortedQueueAsIs(q) == q

\* [...this.queue].sort by descending PRIORITY_WEIGHT; the sort is stable.
sortedQueue(q) ==
  SelectSeq(q, LAMBDA e : PRIORITY_WEIGHT(e.priority) = 3)
    \o SelectSeq(q, LAMBDA e : PRIORITY_WEIGHT(e.priority) = 2)
    \o SelectSeq(q, LAMBDA e : PRIORITY_WEIGHT(e.priority) = 1)

\* Mutant of Sendable: entries of low priority are sent as well.
SendableWithLow(item) ==
  /\ item.payload # "headers"
  /\ item.payload # "get"

\* The loop of flushOnUnload goes on to sendBeacon for item: it is not of
\* low priority, has no header and its method, if any, is POST.
Sendable(item) ==
  /\ item.priority # "low"
  /\ item.payload # "headers"
  /\ item.payload # "get"

\* The for loop of flushOnUnload from position i of sq, with attemptedCount
\* calls counted so far; bo[id] is what sendBeacon does with entry id.
\* attemptedCount++ follows the call inside the try block, so a call that
\* throws is not counted.  The result is the calls made, in order.
RECURSIVE unloadLoop(_, _, _, _, _, _)
unloadLoop(sq, i, attemptedCount, max, bo, calls) ==
  IF i > Len(sq) \/ attemptedCount >= max THEN calls
  ELSE IF ~Sendable(sq[i])
  THEN unloadLoop(sq, i + 1, attemptedCount, max, bo, calls)
  ELSE unloadLoop(sq, i + 1,
                  IF bo[sq[i].id] = "throws" THEN attemptedCount
                  ELSE attemptedCount + 1,
                  max, bo,
                  Append(calls, [id |-> sq[i].id, res |-> bo[sq[i].id]]))

\* The calls of sendBeacon one flushOnUnload makes: none without
\* navigator.sendBeacon (hb false), on an empty queue, or on a queue with
\* no entry of high or normal priority.
unloadCalls(q, max, hb, bo) ==
  IF ~hb \/ Len(q) = 0
       \/ ~\E k \in 1..Len(q) : q[k].priority \in {"high", "normal"}
  THEN <<>>
  ELSE unloadLoop(sortedQueue(q), 1, 0, max, bo, <<>>)

\* Mutant of queueAfterUnload: an entry sendBeacon took is removed.
queueAfterUnloadDrops(q, calls) ==
  SelectSeq(q, LAMBDA e :
    ~\E k \in 1..Len(calls) : calls[k].id = e.id /\ calls[k].res = "true")

\* this.queue after flushOnUnload: no statement of it assigns the queue or
\* a field of an entry.
queueAfterUnload(q, calls) == q

\* flushOnUnload(event).  Nothing is saved and no lock is taken.
FlushOnUnload(t, hb, bo) ==
  /\ constructed[t]
  /\ LET calls == unloadCalls(queue[t], options[t].maxFlushOnUnload, hb, bo)
     IN /\ beaconCalls' = calls
        /\ queue' = [queue EXCEPT ![t] = queueAfterUnload(queue[t], calls)]
        /\ threw' = Thrown("ok", "ok", NoLock, "none",
                           IF \E k \in 1..Len(calls) : calls[k].res = "throws"
                           THEN "throws" ELSE "none")
  /\ last' = Op("flushOnUnload", t, 0, IF hb THEN "beacon" ELSE "nobeacon", 0)
  /\ UNCHANGED <<returned, now, online, lsQueue, lsLock, nextId, constructed,
                 options, mode, isProcessing, processingPromise,
                 currentConcurrent, pending, safeCount, initPending,
                 activeCycles, sent, attempts, acq, lockWas, flushExpired>>

\* flush(): processQueue(flush).
Flush(t, w, la) ==
  /\ constructed[t]
  /\ AcquireDiffers(t, la)
  /\ processQueue(t, w, la, "flush")
  /\ lockWas' = LockWasAfter(t)
  /\ flushExpired' = [flushExpired EXCEPT ![t] =
       [called |-> @.called \cup ExpiredIds(t),
        started |-> IF last'.res = "cycle" THEN ExpiredIds(t) ELSE @.started]]
  /\ threw' = Thrown(w, la, Seen(t, la), "none", "none")
  /\ UNCHANGED <<beaconCalls, returned,
                 now, online, nextId, constructed, options, initPending>>

\* The fetch of retryItem(id) settles: ok, a response that is not ok, or a
\* rejection.  The outcome is applied, currentConcurrent is decremented,
\* and when the whole batch has settled the cycle goes on.
Settle(t, id, outcome, w, la) ==
  /\ constructed[t]
  /\ id \in pending[t]
  /\ ReleaseDiffers(t, la)
  /\ la # "ok" => pending[t] = {id}
  /\ LET o == options[t]
         q1 == ApplyOutcome(queue[t], id, outcome, now, o)
         sto1 == IF InQueue(queue[t], id)
                 THEN StorageSave(Sto(t), q1, w) ELSE Sto(t)
         cc == currentConcurrent[t] - 1
         rest == pending[t] \ {id}
     IN IF rest = {}
        THEN RunLoop(t, q1, sto1, lsLock, safeCount[t], cc, w, la, FALSE,
                     activeCycles[t], acq[t], rest)
        ELSE /\ queue' = [queue EXCEPT ![t] = q1]
             /\ lsQueue' = sto1.ls
             /\ mode' = [mode EXCEPT ![t] = sto1.mode]
             /\ currentConcurrent' = [currentConcurrent EXCEPT ![t] = cc]
             /\ pending' = [pending EXCEPT ![t] = rest]
             /\ UNCHANGED <<lsLock, isProcessing, processingPromise, safeCount,
                            activeCycles, sent, attempts, acq>>
  /\ last' = [Op("settle", t, id, outcome,
                   IF InQueue(queue[t], id) /\ ~InQueue(queue'[t], id)
                   THEN id ELSE 0) EXCEPT !.la = la]
  /\ lockWas' = LockWasAfter(t)
  /\ threw' = Thrown(w, la, Seen(t, la), outcome, "none")
  /\ UNCHANGED <<beaconCalls, returned,
                 now, online, nextId, constructed, options, initPending,
                 flushExpired>>

\* clear(): the queue is emptied and the stored record removed.
Clear(t, avail) ==
  /\ constructed[t]
  /\ LET sto1 == StorageClear(Sto(t), avail)
     IN /\ queue' = [queue EXCEPT ![t] = <<>>]
        /\ lsQueue' = sto1.ls
        /\ mode' = [mode EXCEPT ![t] = sto1.mode]
  /\ last' = Op("clear", t, 0, "done", 0)
  /\ threw' = Thrown("ok", "ok", NoLock, "none", "none")
  /\ UNCHANGED <<beaconCalls, returned,
                 now, online, lsLock, nextId, constructed, options,
                 isProcessing, processingPromise, currentConcurrent, pending,
                 safeCount, initPending, activeCycles, sent, attempts, acq, lockWas,
                 flushExpired>>

\* storage.load() on the adapter of the instance of tab t; avail: the probe
\* of isLocalStorageAvailable passes.
StorageAdapterLoad(t, avail) ==
  /\ constructed[t]
  /\ LET ld == StorageLoadResult(Sto(t), avail)
     IN /\ lsQueue' = ld.ls
        /\ mode' = [mode EXCEPT ![t] = ld.mode]
        /\ returned' = [call |-> "load", data |-> ld.data, ok |-> TRUE]
  /\ last' = Op("load", t, 0, IF avail THEN "available" ELSE "unavailable", 0)
  /\ threw' = Thrown("ok", "ok", NoLock, "none", "none")
  /\ UNCHANGED <<beaconCalls, now, online, lsLock, nextId, constructed,
                 options, queue, isProcessing, processingPromise,
                 currentConcurrent, pending, safeCount, initPending,
                 activeCycles, sent, attempts, acq, lockWas, flushExpired>>

\* storage.save(this.queue) on the adapter of the instance of tab t.
StorageAdapterSave(t, w) ==
  /\ constructed[t]
  /\ LET sto1 == StorageSave(Sto(t), queue[t], w)
     IN /\ lsQueue' = sto1.ls
        /\ mode' = [mode EXCEPT ![t] = sto1.mode]
  /\ returned' = [call |-> "save", data |-> <<>>,
                  ok |-> StorageSaveReturns(Sto(t), w)]
  /\ last' = Op("save", t, 0, w, 0)
  /\ threw' = Thrown(w, "ok", NoLock, "none", "none")
  /\ UNCHANGED <<beaconCalls, now, online, lsLock, nextId, constructed,
                 options, queue, isProcessing, processingPromise,
                 currentConcurrent, pending, safeCount, initPending,
                 activeCycles, sent, attempts, acq, lockWas, flushExpired>>

\* Other code of the page leaves under the key a text that is no list.
ForeignWrite(v) ==
  /\ lsQueue # v
  /\ lsQueue' = v
  /\ last' = Op("write", "none", 0, "foreign", 0)
  /\ threw' = FALSE
  /\ UNCHANGED <<beaconCalls, returned, now, online, lsLock, nextId,
                 constructed, options, queue, mode, isProcessing,
                 processingPromise, currentConcurrent, pending, safeCount,
                 initPending, activeCycles, sent, attempts, acq, lockWas, flushExpired>>

\* destroy(): releaseLock(), then save.  A running cycle is not stopped.
Destroy(t, w, la) ==
  /\ constructed[t]
  /\ ReleaseDiffers(t, la)
  /\ LET sto1 == StorageSave(Sto(t), queue[t], w)
     IN /\ lsQueue' = sto1.ls
        /\ mode' = [mode EXCEPT ![t] = sto1.mode]
  /\ lsLock' = releaseLock(t, Seen(t, la), lsLock, la = "throws")
  /\ acq' = MarkLost(t, la)
  /\ last' = [Op("destroy", t, 0, "done", 0) EXCEPT !.la = la]
  /\ lockWas' = LockWasAfter(t)
  /\ threw' = Thrown(w, la, Seen(t, la), "none", "none")
  /\ UNCHANGED <<beaconCalls, returned,
                 now, online, nextId, constructed, options, queue,
                 isProcessing, processingPromise, currentConcurrent, pending,
                 safeCount, initPending, activeCycles, sent, attempts,
                 flushExpired>>

\* The clock advances by a short step.
Tick(d) ==
  /\ now + d <= 1000 * (MaxTicks + 1)
  /\ now' = now + d
  /\ last' = Op("tick", "none", 0, "short", 0)
  /\ lockWas' = [t \in Tabs |-> NotStale]
  /\ threw' = FALSE
  /\ UNCHANGED <<beaconCalls, returned,
                 online, lsQueue, lsLock, nextId, constructed, options, queue,
                 mode, isProcessing, processingPromise, currentConcurrent,
                 pending, safeCount, initPending, activeCycles, sent, attempts,
                 acq, flushExpired>>

\* The clock advances by a step as long as the lock's life, once.
LongTick(d) ==
  /\ now <= 1000 * (MaxTicks + 1)
  /\ now' = now + d
  /\ last' = Op("tick", "none", 0, "long", 0)
  /\ lockWas' = [t \in Tabs |-> NotStale]
  /\ threw' = FALSE
  /\ UNCHANGED <<beaconCalls, returned,
                 online, lsQueue, lsLock, nextId, constructed, options, queue,
                 mode, isProcessing, processingPromise, currentConcurrent,
                 pending, safeCount, initPending, activeCycles, sent, attempts,
                 acq, flushExpired>>

\* navigator.onLine changes.
SetOnline ==
  /\ online' = ~online
  /\ last' = Op("online", "none", 0, "set", 0)
  /\ threw' = FALSE
  /\ UNCHANGED <<beaconCalls, returned,
                 now, lsQueue, lsLock, nextId, constructed, options, queue,
                 mode, isProcessing, processingPromise, currentConcurrent,
                 pending, safeCount, initPending, activeCycles, sent, attempts,
                 acq, lockWas, flushExpired>>

----------------------------------------------------------------------------
(* Initial states: tab A has been constructed, with options o, on an empty  *)
(* scope; tab B has not been constructed yet.                               *)

InitCounting(o, lk, on, count) ==
  /\ now = 1000
  /\ online = on
  /\ lsQueue = <<>>
  /\ lsLock = lk
  /\ nextId = 1
  /\ constructed = [t \in Tabs |-> t = "A"]
  /\ options = [t \in Tabs |-> o]
  /\ queue = [t \in Tabs |-> <<>>]
  /\ mode = [t \in Tabs |-> "localStorage"]
  /\ isProcessing = [t \in Tabs |-> FALSE]
  /\ processingPromise = [t \in Tabs |-> "null"]
  /\ currentConcurrent = [t \in Tabs |-> 0]
  /\ pending = [t \in Tabs |-> {}]
  /\ safeCount = [t \in Tabs |-> 0]
  /\ initPending = [t \in Tabs |-> FALSE]
  /\ activeCycles = [t \in Tabs |-> 0]
  /\ sent = [t \in Tabs |-> NoSent]
  /\ attempts = [t \in Tabs |-> count]
  /\ acq = [t \in Tabs |-> NoAcq]
  /\ lockWas = [t \in Tabs |-> NotStale]
  /\ flushExpired = [t \in Tabs |-> NoFlushExpired]
  /\ beaconCalls = <<>>
  /\ returned = NoReturn
  /\ threw = FALSE
  /\ last = NoLast

\* The same without the count of attempts.
InitFrom(o, lk, on) == InitCounting(o, lk, on, Uncounted)

\* The scope holds no lock record and the network is up.
InitWith(o) == InitFrom(o, NoLock, TRUE)

----------------------------------------------------------------------------
(* Spec: one instance, its processing cycles, the clock and the network.   *)

Init == \E o \in Configs : InitWith(o)

Next ==
  \/ \E p \in {"normal", Undefined} : Enqueue("A", p, "ok")
  \/ Flush("A", "ok", "ok")
  \/ \E id \in Ids, outcome \in FetchOutcomes :
       Settle("A", id, outcome, "ok", "ok")
  \/ Clear("A", TRUE)
  \/ \E d \in TickStep : Tick(d)
  \/ SetOnline

Spec == Init /\ [][Next]_vars

----------------------------------------------------------------------------
(* SpecLive: one instance whose every started fetch settles in the end:    *)
(* the promise that fetch returned is resolved or rejected, and the        *)
(* continuation of retryItem then runs.                                    *)

InitLive == \E o \in LiveConfigs : InitWith(o)

SettleSome ==
  \E id \in Ids, outcome \in FetchOutcomes : Settle("A", id, outcome, "ok", "ok")

NextLive ==
  \/ nextId <= MaxLiveEnqueues /\ Enqueue("A", "normal", "ok")
  \/ Flush("A", "ok", "ok")
  \/ SettleSome
  \/ Clear("A", TRUE)
  \/ \E d \in TickStep : Tick(d)

SpecLive == InitLive /\ [][NextLive]_vars /\ WF_vars(SettleSome)

----------------------------------------------------------------------------
(* SpecEnqueue: enqueue with every priority and every storage outcome, on  *)
(* instance A and then, after a reload of the page, on an instance B       *)
(* constructed over the list A persisted.                                  *)

InitEnqueue == \E o \in EnqueueConfigs : InitWith(o)

\* The instance that runs: B once it is constructed (the page was reloaded).
Running(t) == t = IF constructed["B"] THEN "B" ELSE "A"

NextEnqueue ==
  \/ \E t \in Tabs, p \in Priorities \cup {Undefined}, w \in WriteOutcomes :
       Running(t) /\ Enqueue(t, p, w)
  \/ \E cfg \in EnqueueConfigs, avail \in BOOLEAN, w \in WriteOutcomes :
       Construct("B", cfg, avail, w)
  \/ \E d \in TickStep : Tick(d)

SpecEnqueue == InitEnqueue /\ [][NextEnqueue]_vars

----------------------------------------------------------------------------
(* SpecTabs: two instances on one scope, their cycles, destroy() and the   *)
(* lock outliving its ten seconds; the lock key may hold something that is *)
(* no lock record, and the network may be down.                            *)

InitTabs ==
  \/ \E lk \in {NoLock} \cup Malformed :
       InitCounting(TabsConfig, lk, TRUE, NoSent)
  \/ InitCounting(TabsConfig, NoLock, FALSE, NoSent)

NextTabs ==
  \/ Construct("B", TabsConfig, TRUE, "ok")
  \/ \E t \in Tabs, la \in {"ok", "stale"} : InitKick(t, "ok", la)
  \/ \E t \in Tabs : nextId <= MaxTabEnqueues /\ Enqueue(t, "normal", "ok")
  \/ \E t \in Tabs, la \in LockAccess : Flush(t, "ok", la)
  \/ \E t \in Tabs, id \in Ids, outcome \in {"ok", "notok"},
        la \in LockAccess : Settle(t, id, outcome, "ok", la)
  \/ \E t \in Tabs, la \in LockAccess : Destroy(t, "ok", la)
  \/ \E d \in LongStep : LongTick(d)

SpecTabs == InitTabs /\ [][NextTabs]_vars

----------------------------------------------------------------------------
(* SpecBackoff: one instance whose requests fail again and again, over a   *)
(* clock that runs long enough for the second wait of an entry to elapse.  *)

InitBackoff == \E o \in BackoffConfigs : InitWith(o)

NextBackoff ==
  \/ nextId <= MaxBackoffEnqueues /\ Enqueue("A", "normal", "ok")
  \/ Flush("A", "ok", "ok")
  \/ \E id \in Ids, outcome \in {"notok", "throw"} :
       Settle("A", id, outcome, "ok", "ok")
  \/ \E d \in TickStep : Tick(d)
  \/ \E d \in BackoffStep : LongTick(d)

SpecBackoff == InitBackoff /\ [][NextBackoff]_vars

----------------------------------------------------------------------------
(* SpecStorage: one instance and its StorageAdapter, over a localStorage    *)
(* whose writes may throw, whose probe may fail and whose key may come to   *)
(* hold a text that is no list.                                             *)

StorageConfig ==
  [maxQueueSize |-> 2, maxRetries |-> 2, expireTime |-> 86400000,
   retryInterval |-> 2000, maxConcurrent |-> 2, maxFlushOnUnload |-> 1]

InitStorage == InitWith(StorageConfig)

NextStorage ==
  \/ \E p \in {"normal", "high"}, w \in SaveOutcomes : Enqueue("A", p, w)
  \/ \E avail \in BOOLEAN : Clear("A", avail)
  \/ \E avail \in BOOLEAN : StorageAdapterLoad("A", avail)
  \/ \E w \in SaveOutcomes : StorageAdapterSave("A", w)
  \/ \E v \in NotAList : ForeignWrite(v)

SpecStorage == InitStorage /\ [][NextStorage]_vars

----------------------------------------------------------------------------
(* SpecUnload: one instance on a page that is being left: requests of       *)
(* every priority, with and without headers and method, and flushOnUnload   *)
(* over a sendBeacon that takes, refuses or throws.                         *)

UnloadConfigs ==
  { [maxQueueSize |-> 3, maxRetries |-> 2, expireTime |-> 86400000,
     retryInterval |-> 2000, maxConcurrent |-> 2, maxFlushOnUnload |-> 1],
    [maxQueueSize |-> 3, maxRetries |-> 2, expireTime |-> 86400000,
     retryInterval |-> 2000, maxConcurrent |-> 2, maxFlushOnUnload |-> 2] }

InitUnload == \E o \in UnloadConfigs : InitWith(o)

NextUnload ==
  \/ /\ nextId <= MaxUnloadEnqueues
     /\ \E p \in Priorities, pl \in PayloadKinds : enqueue("A", p, pl, "ok")
  \/ \E hb \in BOOLEAN, bo \in [IdsOf(queue["A"]) -> BeaconOutcomes] :
       FlushOnUnload("A", hb, bo)

SpecUnload == InitUnload /\ [][NextUnload]_vars

----------------------------------------------------------------------------
(* SpecFaults: one instance whose every collaborator fails: writes of the   *)
(* list throw, the lock record cannot be read or is no lock record, fetch   *)
(* rejects and sendBeacon throws.  Every started fetch settles in the end.  *)

FaultsConfig ==
  [maxQueueSize |-> 2, maxRetries |-> 2, expireTime |-> 86400000,
   retryInterval |-> 1000, maxConcurrent |-> 2, maxFlushOnUnload |-> 1]

InitFaults ==
  \E lk \in {NoLock} \cup Malformed : InitFrom(FaultsConfig, lk, TRUE)

SettleFaults ==
  \E id \in Ids, outcome \in FetchOutcomes, w \in WriteOutcomes,
     la \in {"ok", "throws"} : Settle("A", id, outcome, w, la)

NextFaults ==
  \/ /\ nextId <= MaxFaultEnqueues
     /\ \E w \in WriteOutcomes : Enqueue("A", "normal", w)
  \/ \E w \in WriteOutcomes, la \in {"ok", "throws"} : Flush("A", w, la)
  \/ SettleFaults
  \/ \E hb \in BOOLEAN, bo \in [IdsOf(queue["A"]) -> {"true", "throws"}] :
       FlushOnUnload("A", hb, bo)

SpecFaults == InitFaults /\ [][NextFaults]_vars /\ WF_vars(SettleFaults)

----------------------------------------------------------------------------
(* SpecHang: one instance, flush() called again and again, and the fetch of *)
(* one entry that may never settle; every other fetch settles in the end.   *)

HungId == 1

InitHang == \E o \in LiveConfigs : InitWith(o)

FlushCall == Flush("A", "ok", "ok")

SettleOthers ==
  \E id \in Ids \ {HungId}, outcome \in FetchOutcomes :
    Settle("A", id, outcome, "ok", "ok")

SettleHung ==
  \E outcome \in FetchOutcomes : Settle("A", HungId, outcome, "ok", "ok")

NextHang ==
  \/ nextId <= MaxHangEnqueues /\ Enqueue("A", "normal", "ok")
  \/ FlushCall
  \/ SettleOthers
  \/ SettleHung
  \/ \E d \in TickStep : Tick(d)

SpecHang ==
  InitHang /\ [][NextHang]_vars /\ WF_vars(FlushCall) /\ WF_vars(SettleOthers)

----------------------------------------------------------------------------
(* SpecReload: a page visit.  The scope holds the list an earlier visit     *)
(* persisted, with entries that are fresh, expired, at the expiry boundary, *)
(* failed once, or out of retries; the network may be down and another tab  *)
(* may hold the lock.  The instance is constructed, its microtask runs, and *)
(* the page may call flush() or clear() before it does.                     *)

ReloadConfig ==
  [maxQueueSize |-> 3, maxRetries |-> 2, expireTime |-> 2000,
   retryInterval |-> 2000, maxConcurrent |-> 1, maxFlushOnUnload |-> 1]

\* The entries an earlier visit may have left, for the clock at 1000.
StoredEntries(id) ==
  { [id |-> id, payload |-> PlainPost, priority |-> "normal",
     retryCount |-> x.rc, lastRetryTime |-> x.lrt, createdAt |-> x.cat] :
    x \in { [rc |-> 0, lrt |-> 0, cat |-> 500],      \* fresh
            [rc |-> 0, lrt |-> 0, cat |-> -1500],    \* expired
            [rc |-> 0, lrt |-> 0, cat |-> -1000],    \* age = expireTime
            [rc |-> 1, lrt |-> 900, cat |-> 500],    \* failed once
            [rc |-> 2, lrt |-> 900, cat |-> 500] } } \* out of retries

RECURSIVE StoredLists(_)
StoredLists(n) ==
  IF n = 0 THEN {<<>>}
  ELSE StoredLists(n - 1) \cup
       {Append(q, e) : q \in {l \in StoredLists(n - 1) : Len(l) = n - 1},
                       e \in StoredEntries(n)}

\* The lock record of another tab, written 500 ms ago.
ForeignLock == [tabId |-> "B", timestamp |-> 500]

InitReload ==
  /\ now = 1000
  /\ online \in BOOLEAN
  /\ lsQueue \in StoredLists(MaxReloadEntries)
  /\ lsLock \in {NoLock, ForeignLock}
  /\ nextId = Len(lsQueue) + 1
  /\ constructed = [t \in Tabs |-> FALSE]
  /\ options = [t \in Tabs |-> ReloadConfig]
  /\ queue = [t \in Tabs |-> <<>>]
  /\ mode = [t \in Tabs |-> "localStorage"]
  /\ isProcessing = [t \in Tabs |-> FALSE]
  /\ processingPromise = [t \in Tabs |-> "null"]
  /\ currentConcurrent = [t \in Tabs |-> 0]
  /\ pending = [t \in Tabs |-> {}]
  /\ safeCount = [t \in Tabs |-> 0]
  /\ initPending = [t \in Tabs |-> FALSE]
  /\ activeCycles = [t \in Tabs |-> 0]
  /\ sent = [t \in Tabs |-> NoSent]
  /\ attempts = [t \in Tabs |-> NoSent]
  /\ acq = [t \in Tabs |-> NoAcq]
  /\ lockWas = [t \in Tabs |-> NotStale]
  /\ flushExpired = [t \in Tabs |-> NoFlushExpired]
  /\ beaconCalls = <<>>
  /\ returned = NoReturn
  /\ threw = FALSE
  /\ last = NoLast

NextReload ==
  \/ \E avail \in BOOLEAN : Construct("A", ReloadConfig, avail, "ok")
  \/ InitKick("A", "ok", "ok")
  \/ Flush("A", "ok", "ok")
  \/ \E id \in Ids, outcome \in {"ok", "notok"} :
       Settle("A", id, outcome, "ok", "ok")
  \/ Clear("A", TRUE)
  \/ \E d \in TickStep : Tick(d)

SpecReload == InitReload /\ [][NextReload]_vars

----------------------------------------------------------------------------
(* Claims *)

Entry(q, id) == q[Find(q, id)]
Abs(n) == IF n < 0 THEN -n ELSE n

\* C1: at most one processing cycle is active per instance: whenever the
\* instance is Processing exactly one cycle runs and its promise is set,
\* so that a flush() made meanwhile takes the branch that returns that
\* promise and starts nothing; when it is Idle no cycle runs.
C1_OneCycle ==
  \A t \in Tabs :
    /\ activeCycles[t] <= 1
    /\ isProcessing[t] <=> activeCycles[t] = 1
    /\ isProcessing[t] => processingPromise[t] = "promise" /\ pending[t] # {}
    /\ (last.op = "flush" /\ last.tab = t /\ last.res = "joined")
         => isProcessing[t]

\* C1 witness: a flush() joined a running cycle whose attempts are in flight.
C1_Witness ==
  /\ last.op = "flush" /\ last.res = "joined"
  /\ pending[last.tab] # {}
  /\ activeCycles[last.tab] = 1

\* C2 as stated: at most one instance of the scope is Processing.
C2_Original == Cardinality({t \in Tabs : isProcessing[t]}) <= 1

\* C2 amended: two instances of one scope are Processing together only
\* when one of them passed tryAcquireLock because the access threw or the
\* stored value could not be parsed, or one of them acquired on a read
\* another tab's write had overtaken, or the record of one of them was
\* removed during its cycle (by its own destroy(), or by a release of the
\* other tab on an overtaken read), or their acquisitions are at least
\* LOCK_EXPIRE_TIME apart.
C2_Amended ==
  \A a, b \in Tabs :
    (a # b /\ isProcessing[a] /\ isProcessing[b]) =>
      \/ acq[a].how = "failopen" \/ acq[b].how = "failopen"
      \/ acq[a].how = "raced" \/ acq[b].how = "raced"
      \/ acq[a].lost \/ acq[b].lost
      \/ Abs(acq[a].at - acq[b].at) >= LOCK_EXPIRE_TIME

\* C2 witness: both instances are Processing, the second having taken the
\* lock over after its ten seconds.
C2_Witness ==
  /\ isProcessing["A"] /\ isProcessing["B"]
  /\ acq["A"].how = "lock" /\ acq["B"].how = "lock"
  /\ ~acq["A"].lost /\ ~acq["B"].lost

\* C3 as stated: within one cycle no entry is sent twice.
C3_Original == \A t \in Tabs, id \in Ids : sent[t][id] <= 1

\* C3 amended: a flush() that joins a running cycle starts no attempt; an
\* attempt is started only for an entry of the queue with no attempt in
\* flight, one at a time; and an entry already attempted in the cycle is
\* attempted again only after that attempt failed and the wait
\* min(retryInterval, 1000 * 2^retryCount) has passed since.
C3_Amended ==
  [][ /\ (last'.op = "flush" /\ last'.res = "joined") => sent' = sent
      /\ \A t \in Tabs, id \in Ids :
           sent'[t][id] > sent[t][id] =>
             /\ sent'[t][id] = sent[t][id] + 1
             /\ id \in pending'[t]
             /\ id \in pending[t] => (last'.op = "settle" /\ last'.id = id)
             /\ InQueue(queue'[t], id)
             /\ sent[t][id] >= 1 =>
                  LET e == Entry(queue'[t], id)
                  IN /\ e.retryCount >= 1
                     /\ now' - e.lastRetryTime >= minWaitTime(e, options[t])
    ]_vars

\* C3 witness: an entry is in flight for the second time in one cycle.
C3_Witness ==
  \E id \in Ids : sent["A"][id] = 2 /\ id \in pending["A"]

\* A step of enqueue by instance t: only enqueue draws a new id.
EnqueueStep(t) == nextId' = nextId + 1 /\ last'.tab = t

\* (priorityWeight, createdAt) of a is not after that of b.
NotAfter(a, b) ==
  \/ PRIORITY_WEIGHT(a.priority) < PRIORITY_WEIGHT(b.priority)
  \/ /\ PRIORITY_WEIGHT(a.priority) = PRIORITY_WEIGHT(b.priority)
     /\ a.createdAt <= b.createdAt

\* C4 as stated: after an enqueue the queue length is at most maxQueueSize.
C4_Original ==
  last.op = "enqueue" => Len(queue[last.tab]) <= options[last.tab].maxQueueSize

\* C5: when enqueue finds the queue full, the entry that leaves is one
\* whose (priorityWeight, createdAt) is smallest among the entries of the
\* queue, low = 1 < normal = 2 < high = 3, the earliest created first inside
\* one priority.
C5_EvictsSmallest ==
  [][ \A t \in Tabs :
        (EnqueueStep(t) /\ Len(queue[t]) >= options[t].maxQueueSize) =>
          \A id \in IdsOf(queue[t]) \ IdsOf(queue'[t]) :
            \A k \in 1..Len(queue[t]) :
              NotAfter(Entry(queue[t], id), queue[t][k])
    ]_vars

\* C5 witness: an enqueue evicted an entry although an entry created
\* before it stays: the priority decided.
C5_Witness ==
  /\ last.op = "enqueue" /\ last.gone # 0
  /\ \E id \in IdsOf(queue[last.tab]) : id < last.gone

\* C6: enqueue always completes with the new entry (retryCount 0,
\* lastRetryTime 0, priority normal when none is given) at the end of the
\* queue; when the queue is full exactly one entry leaves first, otherwise
\* none; and this is so whatever the storage write does.
C6_EnqueueKeeps ==
  [][ \A t \in Tabs :
        EnqueueStep(t) =>
          LET q == queue'[t]
              gone == IdsOf(queue[t]) \ IdsOf(q)
              full == Len(queue[t]) >= options[t].maxQueueSize
          IN /\ last'.op = "enqueue" /\ last'.id = nextId
             /\ Len(q) > 0
             /\ q[Len(q)].id = nextId
             /\ q[Len(q)].priority =
                  (IF last'.res = Undefined THEN "normal" ELSE last'.res)
             /\ q[Len(q)].retryCount = 0
             /\ q[Len(q)].lastRetryTime = 0
             /\ q[Len(q)].createdAt = now
             /\ Cardinality(gone) = IF full /\ Len(queue[t]) > 0 THEN 1 ELSE 0
             /\ Len(q) = Len(queue[t]) + 1 - Cardinality(gone)
    ]_vars

\* C6 witness: an enqueue on a full queue whose storage write failed: the
\* adapter is in memory mode, one entry is gone and the new one is there.
C6_Witness ==
  /\ last.op = "enqueue" /\ last.gone # 0
  /\ mode[last.tab] = "memory"
  /\ last.res = Undefined
  /\ last.id \in IdsOf(queue[last.tab])
  /\ last.id \notin IdsOf(lsQueue)

C8_Original ==
  \A t \in Tabs : \A k \in 1..Len(queue[t]) :
    queue[t][k].retryCount < options[t].maxRetries

\* C8 amended: retryCount never exceeds maxRetries, and an entry whose
\* retryCount has reached maxRetries is in the queue only when maxRetries
\* is 0 and the entry has never been attempted (it leaves at the next
\* cycle start); an entry that failed maxRetries >= 1 times is absent.
C8_Amended ==
  \A t \in Tabs : \A k \in 1..Len(queue[t]) :
    LET e == queue[t][k]
    IN /\ e.retryCount <= options[t].maxRetries
       /\ e.retryCount >= options[t].maxRetries =>
            /\ options[t].maxRetries = 0
            /\ e.retryCount = 0 /\ e.lastRetryTime = 0 /\ sent[t][e.id] = 0

\* C8 witness: with maxRetries 2 an attempt failed and its entry, at its
\* second failure, left the queue.
C8_Witness ==
  /\ last.op = "settle" /\ last.res \in {"notok", "throw"}
  /\ last.gone = last.id
  /\ options[last.tab].maxRetries = 2

\* C9 as stated: no attempt is started for an entry older than expireTime.
C9_Original ==
  [][ \A t \in Tabs, id \in Ids :
        (sent'[t][id] > sent[t][id] /\ InQueue(queue'[t], id)) =>
          ~Expired(Entry(queue'[t], id), now', options[t])
    ]_vars

\* C10 as stated: once a flush() has completed, no entry that was older
\* than expireTime when it was called is in the queue.
C10_Original ==
  \A t \in Tabs :
    ~isProcessing[t] => IdsOf(queue[t]) \cap flushExpired[t].called = {}

\* C10 amended: a flush() that starts a cycle (online, queue not empty, no
\* cycle running, lock acquired) removes at once every entry older than
\* expireTime, whatever its retryCount and priority; a flush() that
\* returns early or joins the running cycle leaves the queue as it is.
C10_Amended ==
  /\ \A t \in Tabs : IdsOf(queue[t]) \cap flushExpired[t].started = {}
  /\ (last.op = "flush" /\ last.res = "cycle") => ExpiredIds(last.tab) = {}

\* C10 witness: a flush() started a cycle and removed an expired entry.
C10_Witness ==
  /\ last.op = "flush" /\ last.res = "cycle"
  /\ flushExpired[last.tab].started # {}

----------------------------------------------------------------------------
(* Backoff *)

\* A flush() of tab t has just started a cycle.
FlushStarted(t) == last'.op = "flush" /\ last'.tab = t /\ last'.res = "cycle"

\* The attempt of id has just been started by tab t.
Started(t, id) == sent'[t][id] > sent[t][id]

\* The concurrency gate of tab t is not full after the step.
GateFree(t) == currentConcurrent'[t] < options[t].maxConcurrent

\* C11: an attempt is started for an entry only if its lastRetryTime is 0
\* or now - lastRetryTime >= min(retryInterval, 1000 * 2^retryCount), on
\* the values the entry has when the batch is built; and a flush() that
\* starts a cycle starts every entry for which this holds, as far as
\* maxConcurrent allows: an entry that has just failed is not attempted
\* again by an immediate flush(), and is by a flush() once the wait is over.
C11_WaitRespected ==
  [][ \A t \in Tabs, id \in Ids :
        InQueue(queue'[t], id) =>
          LET e == Entry(queue'[t], id)
              due == \/ e.lastRetryTime = 0
                     \/ now' - e.lastRetryTime >=
                          Min(options[t].retryInterval,
                              BACKOFF_BASE * Pow2(e.retryCount))
          IN /\ Started(t, id) => due
             /\ (FlushStarted(t) /\ due /\ GateFree(t)) => Started(t, id)
    ]_vars

\* C11 witness: an entry that failed once is in flight again, started by a
\* flush() issued exactly when its wait of 2000 ms was over.
C11_Witness ==
  /\ last.op = "flush" /\ last.res = "cycle"
  /\ \E id \in pending["A"] :
       /\ Entry(queue["A"], id).retryCount = 1
       /\ now - Entry(queue["A"], id).lastRetryTime = 2000

\* The multiple of the base that the wait is after the k-th failure.
Doubling(k) == CASE k = 1 -> 2 [] k = 2 -> 4 [] k = 3 -> 8 [] OTHER -> 16
DoublingFromOne(k) == CASE k = 1 -> 1 [] k = 2 -> 2 [] k = 3 -> 4 [] OTHER -> 8

\* The step satisfies: a flush() of A that starts a cycle starts the entry
\* id, which failed k >= 1 times, exactly when the time since its last
\* failure is at least min(retryInterval, m(k) * 1000); it starts it in any
\* case when that time is at least retryInterval; and m(k) grows strictly
\* until the ceiling is reached.
WaitFollows(m(_), id) ==
  (FlushStarted("A") /\ InQueue(queue'["A"], id)) =>
    LET e == Entry(queue'["A"], id)
        k == e.retryCount
        ri == options["A"].retryInterval
        waited == now' - e.lastRetryTime
        wait == Min(ri, m(k) * BACKOFF_BASE)
    IN k >= 1 =>
         /\ Started("A", id) => waited >= wait
         /\ (waited >= wait /\ GateFree("A")) => Started("A", id)
         /\ (waited >= ri /\ GateFree("A")) => Started("A", id)
         /\ wait < ri => Min(ri, m(k + 1) * BACKOFF_BASE) > wait

\* C12 as stated: the minimum wait before the next attempt is 1, 2, 4, ...
\* times 1000 ms after the 1st, 2nd, 3rd, ... failure, up to retryInterval.
C12_Original == [][\A id \in Ids : WaitFollows(DoublingFromOne, id)]_vars

\* C12 amended: the minimum wait before the next attempt of an entry is
\* min(retryInterval, 1000 * 2^k) after its k-th failure, that is 2, 4, 8,
\* ... times 1000 ms after the 1st, 2nd, 3rd, ... failure: it grows
\* strictly until it reaches retryInterval and never exceeds retryInterval.
C12_Amended == [][\A id \in Ids : WaitFollows(Doubling, id)]_vars

\* C12 witness: an entry that failed twice is in flight again, started by
\* a flush() after the ceiling of 3000 ms, less than the 4000 ms of the
\* doubling.
C12_Witness ==
  /\ last.op = "flush" /\ last.res = "cycle"
  /\ options["A"].retryInterval = 3000
  /\ \E id \in pending["A"] :
       /\ Entry(queue["A"], id).retryCount = 2
       /\ now - Entry(queue["A"], id).lastRetryTime = 3000

----------------------------------------------------------------------------
(* The lock *)

\* The step is a processQueue of tab t that went as far as tryAcquireLock.
Acquiring(t) ==
  /\ last'.tab = t /\ last'.op \in {"flush", "init"}
  /\ last'.res \in {"cycle", "nolock"}

\* lk is a lock record that lets tab t in: its own, or one that expired.
LetsIn(lk, t) ==
  /\ lk \notin Malformed \cup {NoLock, NotStale}
  /\ (lk.tabId = t \/ now - lk.timestamp >= LOCK_EXPIRE_TIME)

\* C13 as stated: the acquisition succeeds exactly when there is no record,
\* or the record is the caller's, or it is at least 10 s old; the record is
\* then {caller, now}; otherwise the record is left as it is.
C13_Original ==
  [][ \A t \in Tabs :
        (Acquiring(t) /\ lsLock \notin Malformed) =>
          /\ last'.res = "cycle" <=> (lsLock = NoLock \/ LetsIn(lsLock, t))
          /\ (last'.res = "cycle" /\ isProcessing'[t]) =>
               lsLock' = [tabId |-> t, timestamp |-> now]
          /\ last'.res = "nolock" => lsLock' = lsLock
    ]_vars

\* C13 amended: the acquisition decides on the value its read of the key
\* returned, which another tab may have replaced since.  When the access
\* throws or that value cannot be parsed, it succeeds and writes nothing.
\* Otherwise it succeeds exactly when that value is absent, or a record of
\* the caller, or a record at least 10 s old, and the record is then
\* {caller, now}; when that value is a record of another tab less than 10 s
\* old it fails and leaves the key as it is.
C13_Amended ==
  [][ \A t \in Tabs :
        LET seen == IF last'.la = "stale" THEN lockWas[t] ELSE lsLock
            failopen == last'.la = "throws" \/ seen = Unparsable
        IN (Acquiring(t) /\ seen # Fieldless) =>
             /\ last'.res = "cycle" <=>
                  (failopen \/ seen = NoLock \/ LetsIn(seen, t))
             /\ (last'.res = "cycle" /\ isProcessing'[t] /\ ~failopen) =>
                  lsLock' = [tabId |-> t, timestamp |-> now]
             /\ (last'.res = "nolock" \/ failopen) => lsLock' = lsLock
    ]_vars

\* C13 witness: a tab has just acquired the lock over the record, exactly
\* 10 s old, of the other tab, whose cycle is still running.
C13_Witness ==
  /\ last.op = "flush" /\ last.res = "cycle" /\ last.la = "ok"
  /\ lsLock = [tabId |-> last.tab, timestamp |-> now]
  /\ \E u \in Tabs \ {last.tab} :
       isProcessing[u] /\ acq[u].how = "lock" /\ acq[u].at = now - LOCK_EXPIRE_TIME

\* lk is a lock record of a tab other than t, less than 10 s old.
ForeignUnexpired(lk, t) ==
  /\ lk \notin Malformed \cup {NoLock, NotStale}
  /\ lk.tabId # t /\ now - lk.timestamp < LOCK_EXPIRE_TIME

C15_Original ==
  [][ \A t \in Tabs :
        ( /\ lsLock \notin Malformed \cup {NoLock}
          /\ lsLock.tabId = t /\ now - lsLock.timestamp < LOCK_EXPIRE_TIME
          /\ lsLock' # lsLock ) => last'.tab = t
    ]_vars

\* C16 as stated: when the access to the lock throws, or the stored value
\* is no lock record, whatever it is, the acquisition succeeds and the
\* cycle starts.
C16_Original ==
  [][ \A t \in Tabs :
        LET seen == IF last'.la = "stale" THEN lockWas[t] ELSE lsLock
        IN (Acquiring(t) /\ (last'.la = "throws" \/ seen \in Malformed)) =>
             last'.res = "cycle"
    ]_vars

\* The step ends a cycle of tab t, or is a destroy() of tab t.
Ended(t) ==
  /\ last'.tab = t
  /\ \/ isProcessing[t] /\ ~isProcessing'[t]
     \/ last'.res = "cycle" /\ ~isProcessing'[t]
     \/ last'.op = "destroy"

\* destroy() of tab t leaves the queue in the persisted list.
DestroySaves(t) ==
  (last'.op = "destroy" /\ last'.tab = t /\ mode'[t] = "localStorage") =>
    lsQueue' = queue'[t]

----------------------------------------------------------------------------
(* Attempts *)

\* The attempts that the step starts in tab t.
StartedIds(t) == {id \in Ids : Started(t, id)}

\* C18: currentConcurrent is between 0 and maxConcurrent and is the number
\* of fetch calls started and not yet settled; a fetch that settles, ok,
\* not ok or rejected, takes one off it (the attempts started by the same
\* handler are added); it is 0 when the instance is idle.
C18_Gate ==
  [][ \A t \in Tabs :
        /\ currentConcurrent'[t] >= 0
        /\ currentConcurrent'[t] <= options'[t].maxConcurrent
        /\ currentConcurrent'[t] = Cardinality(pending'[t])
        /\ ~isProcessing'[t] => currentConcurrent'[t] = 0
        /\ (last'.op = "settle" /\ last'.tab = t) =>
             /\ last'.id \in pending[t]
             /\ pending'[t] = (pending[t] \ {last'.id}) \cup StartedIds(t)
             /\ currentConcurrent'[t] =
                  currentConcurrent[t] - 1 + Cardinality(StartedIds(t))
    ]_vars

\* C18 witness: with maxConcurrent 1 one fetch is in flight and another
\* entry, never attempted, waits in the queue.
C18_Witness ==
  /\ options["A"].maxConcurrent = 1 /\ currentConcurrent["A"] = 1
  /\ \E id \in IdsOf(queue["A"]) \ pending["A"] :
       Entry(queue["A"], id).lastRetryTime = 0

\* The entries of q other than id, in their order.
Others(q, id) == SelectSeq(q, LAMBDA e : e.id # id)

\* C19: when the fetch of an entry settles, ok removes the entry; a
\* response that is not ok and a rejection have the same effect: retryCount
\* grows by 1 and lastRetryTime becomes now, or the entry is removed when
\* retryCount has reached maxRetries.  The persisted list is then the
\* queue (adapter in localStorage mode), the other entries are as they
\* were, and the other attempts of the batch stay in flight.
C19_Outcomes ==
  [][ \A t \in Tabs :
        (last'.op = "settle" /\ last'.tab = t) =>
          LET id == last'.id
              o == options[t]
          IN /\ Others(queue'[t], id) = Others(queue[t], id)
             /\ pending[t] \ {id} \subseteq pending'[t]
             /\ pending[t] # {id} => isProcessing'[t]
             /\ mode'[t] = "localStorage" => lsQueue' = queue'[t]
             /\ ~InQueue(queue[t], id) => ~InQueue(queue'[t], id)
             /\ InQueue(queue[t], id) =>
                  LET e == Entry(queue[t], id)
                  IN IF last'.res = "ok" \/ e.retryCount + 1 >= o.maxRetries
                     THEN ~InQueue(queue'[t], id) /\ last'.gone = id
                     ELSE /\ InQueue(queue'[t], id)
                          /\ Entry(queue'[t], id) =
                               [e EXCEPT !.retryCount = e.retryCount + 1,
                                         !.lastRetryTime = now]
    ]_vars

\* C19 witness: a fetch has just been rejected, its entry stays with
\* retryCount 1, and the other attempt of the batch is still in flight.
C19_Witness ==
  /\ last.op = "settle" /\ last.res = "throw"
  /\ pending[last.tab] # {}
  /\ InQueue(queue[last.tab], last.id)
  /\ Entry(queue[last.tab], last.id).retryCount = 1
  /\ Entry(queue[last.tab], last.id).lastRetryTime = now

\* The step runs the while loop of a cycle of tab t from its test: at the
\* start of the cycle or after the last attempt of a batch has settled.
LoopRuns(t) ==
  /\ last'.tab = t
  /\ \/ last'.op \in {"flush", "init"} /\ last'.res = "cycle"
     \/ last'.op = "settle" /\ pending[t] = {last'.id}

\* C20: when every started fetch settles in the end, every cycle ends.  The
\* loop is left as soon as a pass starts no attempt, also with entries in
\* the queue; each pass that starts one takes one off safeCount, which
\* starts at 1000 and is never negative.  When the loop is left the
\* instance is idle, nothing is in flight, the lock record is not the
\* instance's and the persisted list is the queue (adapter in localStorage
\* mode).
C20_Terminates ==
  /\ [][ \A t \in Tabs :
           /\ safeCount'[t] >= 0 /\ safeCount'[t] <= SAFE_COUNT
           /\ LoopRuns(t) =>
                IF StartedIds(t) = {}
                THEN /\ ~isProcessing'[t]
                     /\ pending'[t] = {} /\ currentConcurrent'[t] = 0
                     /\ lsLock'.tabId # t
                     /\ mode'[t] = "localStorage" => lsQueue' = queue'[t]
                ELSE /\ isProcessing'[t]
                     /\ safeCount'[t] =
                          (IF last'.op = "settle" THEN safeCount[t]
                           ELSE SAFE_COUNT) - 1
      ]_vars
  /\ \A t \in Tabs : isProcessing[t] ~> ~isProcessing[t]

\* C20 witness: a cycle has ended with an entry left in the queue that
\* has just failed and is not yet due again.
C20_Witness ==
  /\ last.op = "settle" /\ ~isProcessing[last.tab]
  /\ InQueue(queue[last.tab], last.id)
  /\ Entry(queue[last.tab], last.id).lastRetryTime = now

----------------------------------------------------------------------------
(* The StorageAdapter *)

\* The step is a load() on the adapter of tab t.
LoadStep(t) == last'.op = "load" /\ last'.tab = t

\* The step is a save(this.queue) on the adapter of tab t.
SaveStep(t) == last'.op = "save" /\ last'.tab = t

\* The storage of tab t after the step.
StoAfter(t) == [ls |-> lsQueue', mode |-> mode'[t]]

\* C29 as stated: load() does not throw, and for a stored value that is
\* unparseable text, a JSON object or null it returns the empty list and
\* the record is removed from storage.
C29_Original ==
  [][ \A t \in Tabs :
        ( /\ LoadStep(t) /\ last'.res = "available"
          /\ mode[t] = "localStorage" /\ lsQueue \in NotAList ) =>
            /\ ~threw'
            /\ returned'.data = <<>>
            /\ lsQueue' = <<>>
    ]_vars

\* C30: save() does not throw.  In localStorage mode a write that throws
\* makes it return false and switches the adapter to memory mode, a quota
\* error also removing the stored record; with the probe of localStorage
\* failing it returns false and changes nothing; a write that works stores
\* the queue and returns true.  In memory mode save() returns true and
\* writes nothing, load() returns the empty list, and enqueue still adds
\* its entry to the queue.
C30_SaveDegrades ==
  [][ \A t \in Tabs :
        /\ SaveStep(t) =>
             /\ ~threw'
             /\ IF mode[t] = "memory"
                THEN returned'.ok /\ lsQueue' = lsQueue /\ mode'[t] = "memory"
                ELSE /\ last'.res \in {"quota", "error"} =>
                          ~returned'.ok /\ mode'[t] = "memory"
                     /\ last'.res = "quota" => lsQueue' = <<>>
                     /\ last'.res = "error" => lsQueue' = lsQueue
                     /\ last'.res = "unavailable" =>
                          /\ ~returned'.ok
                          /\ lsQueue' = lsQueue /\ mode'[t] = mode[t]
                     /\ last'.res = "ok" =>
                          /\ returned'.ok
                          /\ lsQueue' = queue[t] /\ mode'[t] = mode[t]
        /\ (LoadStep(t) /\ mode[t] = "memory") =>
             returned'.data = <<>> /\ mode'[t] = "memory"
        /\ (EnqueueStep(t) /\ mode[t] = "memory") =>
             /\ ~threw'
             /\ InQueue(queue'[t], last'.id)
             /\ lsQueue' = lsQueue /\ mode'[t] = "memory"
    ]_vars

\* C30 witness: a save whose write hit the quota has returned false, the
\* adapter is in memory mode, the stored record is gone and the queue
\* still holds an entry.
C30_Witness ==
  /\ last.op = "save" /\ last.res = "quota"
  /\ returned.call = "save" /\ ~returned.ok
  /\ mode["A"] = "memory" /\ lsQueue = <<>>
  /\ Len(queue["A"]) > 0

\* C26 as stated: after clear() the queue is empty and a load of the
\* persisted list yields the empty list, whether the probe of localStorage
\* passes at that load or not.
C26_Original ==
  [][ \A t \in Tabs :
        (last'.op = "clear" /\ last'.tab = t) =>
          /\ queue'[t] = <<>>
          /\ \A avail \in BOOLEAN :
               StorageLoadResult(StoAfter(t), avail).data = <<>>
    ]_vars

----------------------------------------------------------------------------
(* flushOnUnload *)

\* The step is a flushOnUnload() of tab t.
UnloadStep(t) == last'.op = "flushOnUnload" /\ last'.tab = t

\* The ids for which the last flushOnUnload called sendBeacon.
CalledIds(calls) == {calls[k].id : k \in 1..Len(calls)}

\* C21: flushOnUnload removes no entry and changes no retryCount, whether
\* sendBeacon returns true, returns false or throws: the queue holds the
\* same entries in the same order, each with the retryCount it had.
C21_KeepsEntries ==
  [][ \A t \in Tabs :
        UnloadStep(t) =>
          /\ Len(queue'[t]) = Len(queue[t])
          /\ \A k \in 1..Len(queue[t]) :
               /\ queue'[t][k].id = queue[t][k].id
               /\ queue'[t][k].retryCount = queue[t][k].retryCount
    ]_vars

\* C21 witness: a flushOnUnload has called sendBeacon for two entries, one
\* call returned true and one threw, and both entries are in the queue.
C21_Witness ==
  /\ last.op = "flushOnUnload"
  /\ \E i, j \in 1..Len(beaconCalls) :
       beaconCalls[i].res = "true" /\ beaconCalls[j].res = "throws"
  /\ CalledIds(beaconCalls) \subseteq IdsOf(queue["A"])
  /\ Len(queue["A"]) = 2

\* C22 as stated: after flushOnUnload every entry it called sendBeacon for
\* has lastRetryTime = now, whatever the call returned or threw.
C22_Original ==
  [][ \A t \in Tabs :
        UnloadStep(t) =>
          \A id \in CalledIds(beaconCalls') :
            Entry(queue'[t], id).lastRetryTime = now
    ]_vars

\* C23: flushOnUnload calls sendBeacon only for entries of high or normal
\* priority that carry no header and no method other than POST, and for
\* every such entry of high priority before any of normal priority: the
\* calls for high entries come first, and once a normal entry is sent every
\* sendable high entry has been.
C23_HighFirst ==
  [][ \A t \in Tabs :
        UnloadStep(t) =>
          LET calls == beaconCalls'
              pr(k) == Entry(queue[t], calls[k].id).priority
          IN /\ \A k \in 1..Len(calls) :
                  /\ InQueue(queue[t], calls[k].id)
                  /\ pr(k) \in {"high", "normal"}
                  /\ Entry(queue[t], calls[k].id).payload \notin
                       {"headers", "get"}
             /\ \A i, j \in 1..Len(calls) :
                  (i < j /\ pr(j) = "high") => pr(i) = "high"
             /\ (\E k \in 1..Len(calls) : pr(k) = "normal") =>
                  \A m \in 1..Len(queue[t]) :
                    (queue[t][m].priority = "high"
                      /\ queue[t][m].payload \notin {"headers", "get"}) =>
                        queue[t][m].id \in CalledIds(calls)
    ]_vars

\* C23 witness: sendBeacon has been called for a high entry and then for a
\* normal entry that was enqueued before it.
C23_Witness ==
  /\ last.op = "flushOnUnload" /\ Len(beaconCalls) = 2
  /\ beaconCalls[1].id > beaconCalls[2].id
  /\ Entry(queue["A"], beaconCalls[1].id).priority = "high"
  /\ Entry(queue["A"], beaconCalls[2].id).priority = "normal"

\* C24 as stated: one flushOnUnload calls sendBeacon at most
\* maxFlushOnUnload times, whatever the calls return or throw.
C24_Original ==
  [][ \A t \in Tabs :
        UnloadStep(t) => Len(beaconCalls') <= options[t].maxFlushOnUnload
    ]_vars

----------------------------------------------------------------------------
(* Failures and calls that never return *)

AttemptedOrGone(t, id) == id \in pending[t] \/ ~InQueue(queue[t], id)

\* C27 as stated: an enqueue on an idle instance, with the network up and
\* the lock free, leads to an attempt of the new entry without any other
\* call.
C27_Original ==
  \A id \in Ids :
    ( /\ last.op = "enqueue" /\ last.tab = "A" /\ last.id = id
      /\ ~isProcessing["A"] /\ online /\ lsLock = NoLock )
      ~> AttemptedOrGone("A", id)

\* C28 as stated: with a fetch that never settles the instance does not
\* stay Processing for ever, and an entry that has not been attempted yet
\* comes to be attempted by a later flush().
C28_Original ==
  /\ isProcessing["A"] ~> ~isProcessing["A"]
  /\ \A id \in Ids \ {HungId} :
       (InQueue(queue["A"], id) /\ Entry(queue["A"], id).retryCount = 0)
         ~> AttemptedOrGone("A", id)

----------------------------------------------------------------------------
(* Construction *)

\* The step is the construction of the instance of tab t.
ConstructStep(t) == last'.op = "construct" /\ last'.tab = t

\* The step is the microtask that init() of tab t scheduled.
InitStep(t) == last'.op = "init" /\ last'.tab = t

\* What the constructor of tab t leaves: the queue is the persisted list
\* (nothing, with the adapter in memory mode) without the entries older
\* than expireTime and those with retryCount >= maxRetries, no cycle has
\* been started yet, and the microtask is scheduled exactly when the queue
\* is not empty.
Constructed(t) ==
  LET o == options'[t]
      kept(e) == now - e.createdAt <= o.expireTime /\ e.retryCount < o.maxRetries
  IN /\ queue'[t] = IF mode'[t] = "localStorage"
                    THEN SelectSeq(lsQueue, kept) ELSE <<>>
     /\ ~isProcessing'[t] /\ pending'[t] = {}
     /\ initPending'[t] = (Len(queue'[t]) > 0)

\* C31 as stated: the constructor loads and cleans the list, and the
\* microtask starts a cycle exactly when the queue is not empty and no
\* cycle is running.
C31_Original ==
  [][ \A t \in Tabs :
        /\ ConstructStep(t) => Constructed(t)
        /\ InitStep(t) =>
             (last'.res = "cycle" <=> (Len(queue[t]) > 0 /\ ~isProcessing[t]))
    ]_vars

\* C31: the constructor loads the persisted list and removes the expired
\* entries and those out of retries; it starts nothing itself and
\* schedules processQueue exactly when the queue it is left with is not
\* empty.  That call starts a cycle exactly when no cycle is running, the
\* queue is still not empty, the network is up and the lock is acquired.
C31_Amended ==
  [][ \A t \in Tabs :
        /\ ConstructStep(t) => Constructed(t)
        /\ ~initPending[t] => ~InitStep(t)
        /\ InitStep(t) =>
             (last'.res = "cycle" <=>
                ( /\ Len(queue[t]) > 0 /\ ~isProcessing[t]
                  /\ online
                  /\ tryAcquireLock(t, lsLock, now, FALSE).ok ))
    ]_vars

\* C31 witness: of two persisted entries the constructor dropped one, and
\* the microtask has started the attempt of the other.
C31_Witness ==
  /\ last.op = "init" /\ last.res = "cycle"
  /\ nextId = 3 /\ Len(queue["A"]) = 1
  /\ pending["A"] = IdsOf(queue["A"])

----------------------------------------------------------------------------
(* The live queue *)

\* The step applies the outcome of the fetch of entry id of tab t.
SettleStep(t, id) == last'.op = "settle" /\ last'.tab = t /\ last'.id = id

\* C32: the outcome of an attempt is applied to the live queue by id.
\* Whatever was enqueued or evicted while the fetch was in flight, the
\* step changes no entry but the one with that id (and nothing when that
\* entry is gone), so every other entry of the queue is still there, and
\* in the persisted list when the adapter is in localStorage mode.  When
\* the step ends a batch, an entry that has never been attempted is in the
\* next batch of the same cycle, unless that batch is full without it.
C32_LiveQueue ==
  [][ \A t \in Tabs, id \in Ids :
        SettleStep(t, id) =>
          /\ Others(queue'[t], id) = Others(queue[t], id)
          /\ ~InQueue(queue[t], id) => queue'[t] = queue[t]
          /\ mode'[t] = "localStorage" =>
               Others(lsQueue', id) = Others(queue[t], id)
          /\ pending[t] = {id} =>
               \A k \in 1..Len(queue'[t]) :
                 (queue'[t][k].id # id /\ queue'[t][k].lastRetryTime = 0) =>
                   /\ isProcessing'[t]
                   /\ \/ queue'[t][k].id \in pending'[t]
                      \/ Cardinality(pending'[t]) = options[t].maxConcurrent
    ]_vars

\* C32 witness: an outcome has been applied and an entry enqueued after
\* the cycle began, while that fetch was in flight, is now being attempted
\* by the same cycle.
C32_Witness ==
  /\ last.op = "settle" /\ isProcessing["A"]
  /\ \E k \in 1..Len(queue["A"]) :
       /\ queue["A"][k].createdAt > acq["A"].at
       /\ queue["A"][k].id \in pending["A"]
       /\ queue["A"][k].id # last.id

----------------------------------------------------------------------------
(* SpecLease: the lock key holds what a tab that is gone left behind: no    *)
(* record, a value that is not JSON, a JSON value without the two fields,   *)
(* or the record of tab B written at time 1000.  Tab B takes no step.  Tab  *)
(* A calls flush() again and again, its fetches settle, the clock passes    *)
(* the life of the lock.                                                    *)

CrashedLock == [tabId |-> "B", timestamp |-> 1000]

LeftBehind == {NoLock, Unparsable, Fieldless, CrashedLock}

InitLease ==
  \E o \in LiveConfigs, lk \in LeftBehind : InitFrom(o, lk, TRUE)

LeaseFlush == Flush("A", "ok", "ok")

LeaseSettle ==
  \E id \in Ids, outcome \in FetchOutcomes : Settle("A", id, outcome, "ok", "ok")

LeaseClock == \E d \in LongStep : LongTick(d)

NextLease ==
  \/ nextId <= MaxLeaseEnqueues /\ Enqueue("A", "normal", "ok")
  \/ LeaseFlush
  \/ LeaseSettle
  \/ LeaseClock
  \/ \E d \in TickStep : Tick(d)

SpecLease ==
  /\ InitLease /\ [][NextLease]_vars
  /\ WF_vars(LeaseFlush) /\ WF_vars(LeaseSettle) /\ WF_vars(LeaseClock)

\* C33 as stated: whatever the lock key holds, once LOCK_EXPIRE_TIME has
\* passed since it was written, an instance with entries queued that keeps
\* calling flush() comes to acquire the lock and start a cycle.
C33_Original ==
  ( /\ now - CrashedLock.timestamp >= LOCK_EXPIRE_TIME
    /\ Len(queue["A"]) > 0 /\ ~isProcessing["A"] )
    ~> (last.tab = "A" /\ last.res = "cycle")

\* The same for a key that holds no record, a value that is not JSON, or
\* the record of a tab that is gone: there the cycle starts.
C33_WellFormed ==
  ( /\ lsLock # Fieldless
    /\ now - CrashedLock.timestamp >= LOCK_EXPIRE_TIME
    /\ Len(queue["A"]) > 0 /\ ~isProcessing["A"] )
    ~> (last.tab = "A" /\ last.res = "cycle")

----------------------------------------------------------------------------
(* Persistence *)

\* C34: with one instance whose adapter is in localStorage mode and whose
\* writes succeed, the persisted list is the queue in memory, entry by
\* entry and field by field, after the constructor, after every call of
\* enqueue, flush and clear, and after every outcome has been applied.
C34_Persisted ==
  (constructed["A"] /\ mode["A"] = "localStorage") => lsQueue = queue["A"]

\* C34 witness: the outcome of a failed attempt has been applied while the
\* queue held a second entry; the persisted list holds both entries, the
\* failed one with its new retryCount and lastRetryTime.
C34_Witness ==
  /\ last.op = "settle" /\ mode["A"] = "localStorage"
  /\ Len(lsQueue) = 2 /\ lsQueue = queue["A"]
  /\ \E k \in 1..2 :
       /\ lsQueue[k].id = last.id
       /\ lsQueue[k].retryCount = 1 /\ lsQueue[k].lastRetryTime = now

----------------------------------------------------------------------------
(* The lock during a cycle *)

\* C35 as stated: an instance that acquired the lock by writing its record
\* owns the record for as long as its cycle runs, also across a destroy()
\* and beyond LOCK_EXPIRE_TIME.
C35_Original ==
  \A t \in Tabs :
    (isProcessing[t] /\ acq[t].how = "lock") => lsLock.tabId = t

\* A cycle of tab A runs on without its record after destroy().
C35_Destroyed ==
  /\ last.op = "destroy" /\ last.tab = "A" /\ last.la = "ok"
  /\ isProcessing["A"] /\ acq["A"].how = "lock" /\ lsLock = NoLock

\* A cycle of tab A runs on while the record is tab B's, taken over after
\* LOCK_EXPIRE_TIME by reads and writes that nothing overtook.
C35_TakenOver ==
  /\ isProcessing["A"] /\ acq["A"].how = "lock" /\ ~acq["A"].lost
  /\ isProcessing["B"] /\ acq["B"].how = "lock"
  /\ lsLock.tabId = "B" /\ lsLock.timestamp - acq["A"].at >= LOCK_EXPIRE_TIME

----------------------------------------------------------------------------
(* Removed entries *)

\* C36: an entry that has left the queue of an instance, by delivery, by
\* the retry limit, by expiry, by eviction or by clear(), is in that queue
\* and in the list the instance persists at no later time, whatever the
\* outcome of an attempt that was in flight for it when it left.
C36_NeverBack ==
  [][ \A id \in Ids :
        (id < nextId /\ ~InQueue(queue["A"], id)) =>
          /\ ~InQueue(queue'["A"], id)
          /\ ~InQueue(lsQueue', id)
    ]_vars

\* C36 witness: the attempt of an entry has failed after the entry had
\* left the queue, and the queue, which holds another entry, is without it.
C36_Witness ==
  /\ last.op = "settle" /\ last.res \in {"notok", "throw"} /\ last.gone = 0
  /\ ~InQueue(queue["A"], last.id) /\ ~InQueue(lsQueue, last.id)
  /\ Len(queue["A"]) > 0

----------------------------------------------------------------------------
(* The retry limit *)

\* SpecAttempts: one instance, with maxRetries 0, 1 and 2, whose attempts
\* are counted per entry over all its cycles.
InitAttempts == \E o \in Configs : InitCounting(o, NoLock, TRUE, NoSent)

NextAttempts ==
  \/ nextId <= MaxAttemptEnqueues /\ Enqueue("A", "normal", "ok")
  \/ Flush("A", "ok", "ok")
  \/ \E id \in Ids, outcome \in FetchOutcomes :
       Settle("A", id, outcome, "ok", "ok")
  \/ \E d \in TickStep : Tick(d)

SpecAttempts == InitAttempts /\ [][NextAttempts]_vars

\* C37: over all the cycles of an instance, the attempts started for one
\* entry are at most maxRetries, whatever is enqueued and flushed and
\* however the attempts end.
C37_AttemptLimit ==
  \A id \in Ids : attempts["A"][id] <= options["A"].maxRetries

\* C37 witness: an entry has been attempted maxRetries times, in two
\* cycles, and has left the queue.
C37_Witness ==
  /\ options["A"].maxRetries = 2
  /\ \E id \in Ids :
       /\ attempts["A"][id] = 2 /\ sent["A"][id] = 0
       /\ ~InQueue(queue["A"], id)
  /\ last.op = "settle" /\ last.res \in {"notok", "throw"} /\ last.gone # 0

----------------------------------------------------------------------------
(* Eviction and the incoming entry *)

\* C38: the eviction of enqueue picks among the entries the queue held
\* before the call and never the incoming one: on a full queue the entry
\* that leaves is an old one, not after any other old entry in (priority,
\* createdAt), and the new entry is in the queue whatever its priority,
\* also when it is low and every old entry is high.
C38_IncomingKept ==
  [][ \A t \in Tabs :
        (EnqueueStep(t) /\ Len(queue[t]) > 0
           /\ Len(queue[t]) >= options[t].maxQueueSize) =>
          LET q == queue'[t]
              gone == IdsOf(queue[t]) \ IdsOf(q)
          IN /\ InQueue(q, nextId)
             /\ Cardinality(gone) = 1
             /\ \A id \in gone :
                  /\ id # nextId
                  /\ \A k \in 1..Len(queue[t]) :
                       NotAfter(Entry(queue[t], id), queue[t][k])
             /\ IdsOf(q) = (IdsOf(queue[t]) \ gone) \cup {nextId}
    ]_vars

\* C38 witness: a low entry was enqueued into a full queue of high entries;
\* a high entry is gone and the low one is in the queue.
C38_Witness ==
  /\ last.op = "enqueue" /\ last.res = "low" /\ last.gone # 0
  /\ LET q == queue[last.tab]
     IN /\ Len(q) = 2
        /\ q[1].priority = "high"
        /\ q[2].priority = "low" /\ q[2].id = last.id

----------------------------------------------------------------------------
(* Two instances and one persisted list *)

\* The step is a call of tab t that saves the queue whatever it holds.
SavingStep(t) ==
  last'.tab = t /\ last'.op \in {"enqueue", "destroy"}

\* C39: a save writes the whole queue of the saving instance over the
\* persisted list, and the list is read at construction only.  With two
\* instances on one scope, after every step of an instance that writes the
\* list the list is that instance's queue, and no step but the
\* construction brings an entry of the persisted list or of the other
\* instance into a queue; so an entry the other instance enqueued after
\* the saver's construction is not in the list the saver leaves.
C39_LastWriter ==
  [][ \A t \in Tabs :
        /\ ( /\ last'.tab = t /\ mode'[t] = "localStorage"
             /\ (SavingStep(t) \/ lsQueue' # lsQueue) ) =>
             lsQueue' = queue'[t]
        /\ ~ConstructStep(t) =>
             IdsOf(queue'[t]) \subseteq
               IdsOf(queue[t]) \cup (IF EnqueueStep(t) THEN {nextId} ELSE {})
    ]_vars

\* C39 witness: tab A enqueued an entry after tab B was constructed (tab B
\* has attempted nothing and holds nothing), and a save of tab B has since
\* left the persisted list without that entry.
C39_Witness ==
  /\ last.tab = "B" /\ last.op = "destroy"
  /\ constructed["B"] /\ mode["B"] = "localStorage"
  /\ Len(queue["A"]) = 1 /\ queue["B"] = <<>> /\ attempts["B"] = NoSent
  /\ lsQueue = <<>>

----------------------------------------------------------------------------
(* SpecMode: the mode of the storage adapter over the life of an instance.  *)
(* The scope holds no record, a list of fresh entries, or a text that is    *)
(* not JSON; the probe of localStorage passes or fails at construction and  *)
(* at clear(); the writes of enqueue and of the cycle work or fail.         *)

ModeConfig ==
  [maxQueueSize |-> 2, maxRetries |-> 2, expireTime |-> 86400000,
   retryInterval |-> 2000, maxConcurrent |-> 2, maxFlushOnUnload |-> 1]

ModeLists ==
  {q \in StoredLists(MaxModeEntries) :
     \A k \in 1..Len(q) : q[k].retryCount = 0 /\ q[k].createdAt = 500}
    \cup {UnparsableText}

InitMode ==
  /\ now = 1000
  /\ online = TRUE
  /\ lsQueue \in ModeLists
  /\ lsLock = NoLock
  /\ nextId = MaxModeEntries + 1
  /\ constructed = [t \in Tabs |-> FALSE]
  /\ options = [t \in Tabs |-> ModeConfig]
  /\ queue = [t \in Tabs |-> <<>>]
  /\ mode = [t \in Tabs |-> "localStorage"]
  /\ isProcessing = [t \in Tabs |-> FALSE]
  /\ processingPromise = [t \in Tabs |-> "null"]
  /\ currentConcurrent = [t \in Tabs |-> 0]
  /\ pending = [t \in Tabs |-> {}]
  /\ safeCount = [t \in Tabs |-> 0]
  /\ initPending = [t \in Tabs |-> FALSE]
  /\ activeCycles = [t \in Tabs |-> 0]
  /\ sent = [t \in Tabs |-> NoSent]
  /\ attempts = [t \in Tabs |-> NoSent]
  /\ acq = [t \in Tabs |-> NoAcq]
  /\ lockWas = [t \in Tabs |-> NotStale]
  /\ flushExpired = [t \in Tabs |-> NoFlushExpired]
  /\ beaconCalls = <<>>
  /\ returned = NoReturn
  /\ threw = FALSE
  /\ last = NoLast

NextMode ==
  \/ \E avail \in BOOLEAN : Construct("A", ModeConfig, avail, "ok")
  \/ InitKick("A", "ok", "ok")
  \/ \E w \in SaveOutcomes : Enqueue("A", "normal", w)
  \/ \E w \in WriteOutcomes : Flush("A", w, "ok")
  \/ \E id \in Ids, outcome \in {"ok", "notok"}, w \in WriteOutcomes :
       Settle("A", id, outcome, w, "ok")
  \/ \E avail \in BOOLEAN : Clear("A", avail)

SpecMode == InitMode /\ [][NextMode]_vars

\* getStatus(): the queue's size, the state of the cycle, the mode the
\* adapter reports, and id, priority, retryCount and age of every entry.
getStatus(t) ==
  [queueSize |-> Len(queue[t]),
   isProcessing |-> isProcessing[t],
   currentConcurrent |-> currentConcurrent[t],
   storageMode |-> mode[t],
   items |-> [k \in 1..Len(queue[t]) |->
                [id |-> queue[t][k].id, priority |-> queue[t][k].priority,
                 retryCount |-> queue[t][k].retryCount,
                 age |-> now - queue[t][k].createdAt]]]

\* C40 as stated: once the adapter of an instance is in memory mode it
\* stays there, getStatus reports memory, and no call of the instance
\* changes what durable storage holds.
C40_Original ==
  [][ \A t \in Tabs :
        mode[t] = "memory" =>
          /\ mode'[t] = "memory"
          /\ getStatus(t)'.storageMode = "memory"
          /\ last'.tab = t => lsQueue' = lsQueue
    ]_vars

\* C40 amended: once the adapter of an instance is in memory mode it stays
\* there and getStatus reports memory; no enqueue, cycle or outcome writes
\* the queue to durable storage; clear() still removes the stored record
\* when the probe of localStorage passes, and nothing else changes it.
C40_Amended ==
  [][ \A t \in Tabs :
        mode[t] = "memory" =>
          /\ mode'[t] = "memory"
          /\ getStatus(t)'.storageMode = "memory"
          /\ (last'.tab = t /\ last'.op # "clear") => lsQueue' = lsQueue
          /\ (last'.tab = t /\ last'.op = "clear") => lsQueue' \in {lsQueue, <<>>}
    ]_vars

\* C40 witness: an instance in memory mode has enqueued an entry; the
\* stored list is the one of the earlier visit, without that entry.
C40_Witness ==
  /\ last.op = "enqueue" /\ mode["A"] = "memory"
  /\ getStatus("A").storageMode = "memory"
  /\ InQueue(queue["A"], last.id) /\ ~InQueue(lsQueue, last.id)
  /\ Len(lsQueue) = 1 /\ lsQueue # UnparsableText

====
